---- MODULE Spec2Model ----
(***************************************************************************)
(* Event-to-timeline assembly engine of travel_itinerary:                  *)
(*   assemble/dedup.py        deduplicate, _merge_pair, _richness_score    *)
(*   assemble/timeline.py     events_to_signals, sort_signals,             *)
(*                            assemble_visits, merge_consecutive_visits    *)
(*   assemble/gap_detector.py detect_gaps                                  *)
(*                                                                         *)
(* Dates are day numbers (a datetime.date minus a fixed epoch); None is    *)
(* NoDate.  Strengths and confidences are counted in tenths (0.7 is 7).    *)
(* A TravelEvent reference is the index of the event in `events`.          *)
(***************************************************************************)
EXTENDS Integers, Sequences, FiniteSets, TLC

VARIABLES
    pc,          \* position of the running function
    events,      \* the list of TravelEvents handed to the function
    signals,     \* events_to_signals(events) / the list handed to sort_signals
    sorted,      \* sort_signals(signals)
    idx,         \* loop index (next signal / next visit)
    current,     \* the open visit: <<>> (None) or <<visit>>
    visits,      \* assemble_visits' output list / detect_gaps' input list
    assembled,   \* copy of assemble_visits' return value
    merged,      \* merge_consecutive_visits' output list
    heap,        \* the TravelEvent objects as deduplicate mutates them
    by_conf,     \* deduplicate: confirmation groups, in insertion order
    no_conf,     \* deduplicate: the events with no confirmation number
    used,        \* deduplicate: positions of no_conf already grouped
    primary,     \* deduplicate: the surviving event of the current group
    rest,        \* deduplicate: the group's members still to fold in
    deduped,     \* deduplicate's return value (references into heap)
    augmented,   \* detect_gaps' returned visit list
    gaps         \* detect_gaps' gap list

vars == <<pc, events, signals, sorted, idx, current, visits, assembled,
          merged, heap, by_conf, no_conf, used, primary, rest, deduped,
          augmented, gaps>>

timelineVars == <<signals, sorted, current, visits, assembled, merged>>
dedupVars == <<heap, by_conf, no_conf, used, primary, rest, deduped>>
gapVars == <<augmented, gaps>>

-----------------------------------------------------------------------------
(* Bounds of the model *)

MaxDate == 2
MaxEvents == 2
MaxLegs == 1
MaxSignals == 3
MaxVisits == 2
MaxPopulated == 3
MaxDedupEvents == 3
TripLength == 3

(* Program constants *)

NoDate == -1
PRESENT_OVERRIDE_STRENGTH == 7
GAP_THRESHOLD_DAYS == 14
DEDUP_DATE_WINDOW_DAYS == 2
MERGE_GAP_DAYS == 1
DATE_MAX == 3652059

Dates == 0..MaxDate
DateOpt == Dates \cup {NoDate}

Cities == {"Paris", "paris", "Rome"}

\* str.lower() on the city names of the model
Lower(s) ==
    CASE s = "Paris" -> "paris"
      [] s = "Rome" -> "rome"
      [] s = "Delta" -> "delta"
      [] OTHER -> s

\* str.strip() on the confirmation numbers of the model
Strip(s) ==
    CASE s = "AB1 " -> "AB1"
      [] s = " " -> ""
      [] OTHER -> s

\* `"inferred" in method`
ContainsInferred(m) ==
    m \in {"inferred", "inferred_from_next_arrival", "inferred_unknown",
           "inferred_from_presence_elsewhere"}

\* `a or b` on Optional[date]
OrDate(a, b) == IF a # NoDate THEN a ELSE b

-----------------------------------------------------------------------------
(* models.py *)

\* Optional[Location]: some = FALSE is None
Location(c, r, i, k) ==
    [some |-> TRUE, city |-> c, raw |-> r, iata |-> i, country |-> k]
NoLocation ==
    [some |-> FALSE, city |-> "", raw |-> "", iata |-> "", country |-> ""]
Loc(c) == Location(c, "", "", "")

\* `loc and loc.city`
HasCity(loc) == loc.some /\ loc.city # ""

FlightLeg(o, d, dep, arr) ==
    [origin |-> o, destination |-> d, departure_date |-> dep,
     arrival_date |-> arr]

TravelEvent(t, s, e, o, d, conf, prov, prop, act, legs) ==
    [event_type |-> t, start_date |-> s, end_date |-> e, origin |-> o,
     destination |-> d, confirmation_number |-> conf, provider |-> prov,
     property_name |-> prop, activity_name |-> act, legs |-> legs]

CitySignal(t, c, dt, st, src, m) ==
    [signal_type |-> t, city |-> c, dt |-> dt, strength |-> st,
     source_event |-> src, method |-> m]

CityVisit(c, ed, em, xd, xm, notes) ==
    [city |-> c, enter_date |-> ed, exit_date |-> xd, enter_method |-> em,
     exit_method |-> xm, accommodations |-> <<>>, activities |-> <<>>,
     confidence |-> 0, supporting_events |-> <<>>, notes |-> notes]

Accommodation(n, p, ci, co, conf) ==
    [name |-> n, provider |-> p, check_in |-> ci, check_out |-> co,
     confirmation |-> conf]

Activity(n, p, dt, conf) ==
    [name |-> n, provider |-> p, dt |-> dt, confirmation |-> conf]

Gap(lc, ld, nc, nd, dur, note) ==
    [last_known_city |-> lc, last_known_date |-> ld, next_known_city |-> nc,
     next_known_date |-> nd, duration_days |-> dur, note |-> note]

\* a note; the city an f-string interpolates is kept beside the text
Note(text, c) == [text |-> text, city |-> c]

-----------------------------------------------------------------------------
(* timeline.py, step 1: events_to_signals *)

RECURSIVE LegSignals(_, _, _)
LegSignals(ev, i, k) ==
    IF k > Len(ev.legs) THEN <<>>
    ELSE LET leg == ev.legs[k]
             dep_date == OrDate(leg.departure_date, ev.start_date)
             arr_date == OrDate(leg.arrival_date,
                                OrDate(leg.departure_date, ev.start_date))
         IN  (IF HasCity(leg.origin) /\ dep_date # NoDate
              THEN <<CitySignal("exit", leg.origin.city, dep_date, 10, i,
                                "flight_departure")>>
              ELSE <<>>)
             \o (IF HasCity(leg.destination) /\ arr_date # NoDate
                 THEN <<CitySignal("enter", leg.destination.city, arr_date,
                                   10, i, "flight_arrival")>>
                 ELSE <<>>)
             \o LegSignals(ev, i, k + 1)

\* variant: a leg-less flight that signals the arrival only
signals_from_flight_ArrivalOnly(ev, i) ==
    IF ev.legs # <<>> THEN LegSignals(ev, i, 1)
    ELSE IF HasCity(ev.destination)
            /\ OrDate(ev.end_date, ev.start_date) # NoDate
    THEN <<CitySignal("enter", ev.destination.city,
                      OrDate(ev.end_date, ev.start_date), 10, i,
                      "flight_arrival")>>
    ELSE <<>>

signals_from_flight(ev, i) ==
    IF ev.legs # <<>> THEN LegSignals(ev, i, 1)
    ELSE (IF HasCity(ev.origin) /\ ev.start_date # NoDate
          THEN <<CitySignal("exit", ev.origin.city, ev.start_date, 10, i,
                            "flight_departure")>>
          ELSE <<>>)
         \o (IF HasCity(ev.destination)
                /\ OrDate(ev.end_date, ev.start_date) # NoDate
             THEN <<CitySignal("enter", ev.destination.city,
                               OrDate(ev.end_date, ev.start_date), 10, i,
                               "flight_arrival")>>
             ELSE <<>>)

signals_from_hotel(ev, i) ==
    LET city == IF ev.destination.some THEN ev.destination.city ELSE ""
    IN  IF city = "" THEN <<>>
        ELSE (IF ev.start_date # NoDate
              THEN <<CitySignal("enter", city, ev.start_date, 8, i,
                                "hotel_checkin")>>
              ELSE <<>>)
             \o (IF ev.end_date # NoDate
                 THEN <<CitySignal("exit", city, ev.end_date, 8, i,
                                   "hotel_checkout")>>
                 ELSE <<>>)
             \o (IF ev.start_date # NoDate /\ ev.end_date # NoDate
                 THEN [n \in 1..(ev.end_date - ev.start_date) |->
                          CitySignal("present", city, ev.start_date + n - 1,
                                     9, i, "hotel_stay")]
                 ELSE IF ev.start_date # NoDate
                 THEN <<CitySignal("present", city, ev.start_date, 9, i,
                                   "hotel_stay")>>
                 ELSE <<>>)

\* f"{ev.event_type.value}_departure" / "_arrival"
RailMethod(t, suffix) ==
    IF t = "rail"
    THEN (IF suffix = "departure" THEN "rail_departure" ELSE "rail_arrival")
    ELSE (IF suffix = "departure" THEN "bus_ferry_departure"
          ELSE "bus_ferry_arrival")

signals_from_rail_bus(ev, i) ==
    (IF HasCity(ev.origin) /\ ev.start_date # NoDate
     THEN <<CitySignal("exit", ev.origin.city, ev.start_date, 10, i,
                       RailMethod(ev.event_type, "departure"))>>
     ELSE <<>>)
    \o (IF HasCity(ev.destination)
           /\ OrDate(ev.end_date, ev.start_date) # NoDate
        THEN <<CitySignal("enter", ev.destination.city,
                          OrDate(ev.end_date, ev.start_date), 10, i,
                          RailMethod(ev.event_type, "arrival"))>>
        ELSE <<>>)

\* variant: a car rental weighted like a tour
signals_from_car_rental_Strong(ev, i) ==
    (IF HasCity(ev.origin) /\ ev.start_date # NoDate
     THEN <<CitySignal("present", ev.origin.city, ev.start_date, 7, i,
                       "car_rental_pickup")>>
     ELSE <<>>)
    \o (IF HasCity(ev.destination) /\ ev.end_date # NoDate
        THEN <<CitySignal("present", ev.destination.city, ev.end_date, 7, i,
                          "car_rental_return")>>
        ELSE <<>>)

signals_from_car_rental(ev, i) ==
    (IF HasCity(ev.origin) /\ ev.start_date # NoDate
     THEN <<CitySignal("present", ev.origin.city, ev.start_date, 5, i,
                       "car_rental_pickup")>>
     ELSE <<>>)
    \o (IF HasCity(ev.destination) /\ ev.end_date # NoDate
        THEN <<CitySignal("present", ev.destination.city, ev.end_date, 5, i,
                          "car_rental_return")>>
        ELSE <<>>)

signals_from_tour(ev, i) ==
    LET city == IF ev.destination.some THEN ev.destination.city ELSE ""
    IN  IF city # "" /\ ev.start_date # NoDate
        THEN <<CitySignal("present", city, ev.start_date, 7, i,
                          "tour_activity")>>
        ELSE <<>>

EventSignals(ev, i) ==
    CASE ev.event_type = "flight" -> signals_from_flight(ev, i)
      [] ev.event_type = "hotel" -> signals_from_hotel(ev, i)
      [] ev.event_type \in {"rail", "bus_ferry"} ->
            signals_from_rail_bus(ev, i)
      [] ev.event_type = "car_rental" -> signals_from_car_rental(ev, i)
      [] ev.event_type = "tour" -> signals_from_tour(ev, i)
      [] OTHER -> <<>>

RECURSIVE EventsToSignalsFrom(_, _)
EventsToSignalsFrom(evs, i) ==
    IF i > Len(evs) THEN <<>>
    ELSE EventSignals(evs[i], i) \o EventsToSignalsFrom(evs, i + 1)

events_to_signals(evs) == EventsToSignalsFrom(evs, 1)

-----------------------------------------------------------------------------
(* timeline.py, step 2: sort_signals *)

\* variant: arrivals ordered before departures
SIGNAL_ORDER_EnterFirst(t) ==
    CASE t = "enter" -> 0 [] t = "present" -> 1 [] t = "exit" -> 2

SIGNAL_ORDER(t) ==
    CASE t = "exit" -> 0 [] t = "present" -> 1 [] t = "enter" -> 2

\* the sort key (s.dt, _SIGNAL_ORDER[s.signal_type]), compared as a tuple
SignalKeyLess(a, b) ==
    \/ a.dt < b.dt
    \/ a.dt = b.dt /\ SIGNAL_ORDER(a.signal_type) < SIGNAL_ORDER(b.signal_type)

\* sorted() is stable: x goes after every element whose key is not greater
InsertSignal(x, s) ==
    LET later == {k \in 1..Len(s) : SignalKeyLess(x, s[k])}
        pos == IF later = {} THEN Len(s) + 1
               ELSE CHOOSE k \in later : \A j \in later : k <= j
    IN  SubSeq(s, 1, pos - 1) \o <<x>> \o SubSeq(s, pos, Len(s))

RECURSIVE SortPrefix(_, _)
SortPrefix(s, n) ==
    IF n = 0 THEN <<>> ELSE InsertSignal(s[n], SortPrefix(s, n - 1))

\* variant: the signals walked in the order they were generated
sort_signals_AsGenerated(s) == s

sort_signals(s) == SortPrefix(s, Len(s))

-----------------------------------------------------------------------------
(* timeline.py, step 3: assemble_visits *)

\* `ev in supporting_events`: list membership compares dataclasses by value
EventIn(i, supp) == \E k \in 1..Len(supp) : events[supp[k]] = events[i]

RECURSIVE collect_accommodations(_)
collect_accommodations(supp) ==
    IF supp = <<>> THEN <<>>
    ELSE LET ev == events[Head(supp)]
         IN  (IF ev.event_type = "hotel"
                 /\ (ev.property_name # "" \/ ev.provider # "")
              THEN <<Accommodation(
                        IF ev.property_name # "" THEN ev.property_name
                        ELSE IF ev.provider # "" THEN ev.provider
                        ELSE "Unknown hotel",
                        ev.provider, ev.start_date, ev.end_date,
                        ev.confirmation_number)>>
              ELSE <<>>)
             \o collect_accommodations(Tail(supp))

RECURSIVE collect_activities(_)
collect_activities(supp) ==
    IF supp = <<>> THEN <<>>
    ELSE LET ev == events[Head(supp)]
         IN  (IF ev.event_type = "tour" /\ ev.activity_name # ""
              THEN <<Activity(ev.activity_name, ev.provider, ev.start_date,
                              ev.confirmation_number)>>
              ELSE <<>>)
             \o collect_activities(Tail(supp))

Min(a, b) == IF a < b THEN a ELSE b

score_confidence(visit) ==
    LET has_explicit_enter ==
            visit.enter_method # "" /\ ~ContainsInferred(visit.enter_method)
        has_explicit_exit ==
            visit.exit_method # "" /\ ~ContainsInferred(visit.exit_method)
        base == IF has_explicit_enter /\ has_explicit_exit THEN 10
                ELSE IF has_explicit_enter \/ has_explicit_exit THEN 7
                ELSE 4
        withAcc == IF visit.accommodations # <<>> THEN Min(10, base + 1)
                   ELSE base
    IN  IF Len(visit.supporting_events) >= 3 THEN Min(10, withAcc + 1)
        ELSE withAcc

\* variant: the inferred exit is dated but its method and note are not set
InferExit_DateOnly(v, dt, method, note) ==
    IF v.exit_date = NoDate
    THEN [v EXCEPT !.exit_date = dt]
    ELSE v

\* the open visit closed by evidence of being elsewhere
\* (`if not current.exit_date:` and the three assignments under it)
InferExit(v, dt, method, note) ==
    IF v.exit_date = NoDate
    THEN [v EXCEPT !.exit_date = dt, !.exit_method = method,
                   !.notes = Append(@, note)]
    ELSE v

\* CityVisit(...) followed by supporting_events.append(sig.source_event)
OpenVisit(sig, notes) ==
    [CityVisit(sig.city, sig.dt, sig.method, NoDate, "inferred", notes)
        EXCEPT !.supporting_events = <<sig.source_event>>]

PostProcess(v) ==
    LET a == [v EXCEPT
                 !.accommodations = collect_accommodations(v.supporting_events),
                 !.activities = collect_activities(v.supporting_events)]
    IN  [a EXCEPT !.confidence = score_confidence(a)]

\* variant: signal generation that normalises the city names on the events
BuildTimelineStart_NormalisesCities ==
    /\ pc = "start"
    /\ signals' = events_to_signals(events)
    /\ events' = [k \in 1..Len(events) |->
                     [events[k] EXCEPT !.destination.city = Lower(@)]]
    /\ pc' = "assemble"
    /\ UNCHANGED <<sorted, idx, current, visits, assembled, merged,
                   dedupVars, gapVars>>

\* build_timeline: signals = events_to_signals(events)
BuildTimelineStart ==
    /\ pc = "start"
    /\ signals' = events_to_signals(events)
    /\ pc' = "assemble"
    /\ UNCHANGED <<events, sorted, idx, current, visits, assembled, merged,
                   dedupVars, gapVars>>

\* assemble_visits: the empty check, sort_signals, the empty accumulators
AssembleStart ==
    /\ pc = "assemble"
    /\ IF signals = <<>>
       THEN /\ pc' = "merge"
            /\ UNCHANGED sorted
       ELSE /\ pc' = "walk"
            /\ sorted' = sort_signals(signals)
    /\ idx' = 1
    /\ visits' = <<>>
    /\ assembled' = <<>>
    /\ current' = <<>>
    /\ UNCHANGED <<events, signals, merged, dedupVars, gapVars>>

AtSignal(t) ==
    /\ pc = "walk"
    /\ idx <= Len(sorted)
    /\ sorted[idx].signal_type = t

\* loop body, `if sig.signal_type == SignalType.ENTER`
HandleEnter ==
    /\ AtSignal("enter")
    /\ LET sig == sorted[idx]
       IN  /\ visits' =
                IF current # <<>>
                THEN Append(visits,
                            InferExit(current[1], sig.dt,
                                      "inferred_from_next_arrival",
                                      Note("Exit inferred from arrival in",
                                           sig.city)))
                ELSE visits
           /\ current' = <<OpenVisit(sig, <<>>)>>
    /\ idx' = idx + 1
    /\ UNCHANGED <<pc, events, signals, sorted, assembled, merged, dedupVars, gapVars>>

\* variant: an EXIT with no visit open is dropped instead of being recorded
HandleExit_DropsLoneDeparture ==
    /\ AtSignal("exit")
    /\ LET sig == sorted[idx]
       IN  IF current # <<>> /\ Lower(current[1].city) = Lower(sig.city)
           THEN /\ visits' =
                     Append(visits,
                            [current[1] EXCEPT
                                !.exit_date = sig.dt,
                                !.exit_method = sig.method,
                                !.supporting_events =
                                    Append(@, sig.source_event)])
                /\ current' = <<>>
           ELSE IF current # <<>>
           THEN /\ visits' =
                     Append(visits,
                            InferExit(current[1], sig.dt, "inferred_unknown",
                                      Note("Closed: EXIT signal from",
                                           sig.city)))
                /\ current' = <<>>
           ELSE UNCHANGED <<visits, current>>
    /\ idx' = idx + 1
    /\ UNCHANGED <<pc, events, signals, sorted, assembled, merged, dedupVars, gapVars>>

\* variant: an EXIT from another city closes the open visit as an explicit
\* exit, with the signal's method and source event
HandleExit_AnyCityExplicit ==
    /\ AtSignal("exit")
    /\ LET sig == sorted[idx]
       IN  IF current # <<>>
           THEN /\ visits' =
                     Append(visits,
                            [current[1] EXCEPT
                                !.exit_date = sig.dt,
                                !.exit_method = sig.method,
                                !.supporting_events =
                                    Append(@, sig.source_event)])
                /\ current' = <<>>
           ELSE /\ visits' =
                     Append(visits,
                            [CityVisit(sig.city, NoDate, "inferred", sig.dt,
                                       sig.method,
                                       <<Note("Departure only - no arrival evidence",
                                              "")>>)
                                EXCEPT !.supporting_events =
                                           <<sig.source_event>>])
                /\ current' = current
    /\ idx' = idx + 1
    /\ UNCHANGED <<pc, events, signals, sorted, assembled, merged, dedupVars, gapVars>>

\* loop body, `elif sig.signal_type == SignalType.EXIT`
HandleExit ==
    /\ AtSignal("exit")
    /\ LET sig == sorted[idx]
       IN  IF current # <<>> /\ Lower(current[1].city) = Lower(sig.city)
           THEN /\ visits' =
                     Append(visits,
                            [current[1] EXCEPT
                                !.exit_date = sig.dt,
                                !.exit_method = sig.method,
                                !.supporting_events =
                                    Append(@, sig.source_event)])
                /\ current' = <<>>
           ELSE IF current # <<>>
           THEN /\ visits' =
                     Append(visits,
                            InferExit(current[1], sig.dt, "inferred_unknown",
                                      Note("Closed: EXIT signal from",
                                           sig.city)))
                /\ current' = <<>>
           ELSE /\ visits' =
                     Append(visits,
                            [CityVisit(sig.city, NoDate, "inferred", sig.dt,
                                       sig.method,
                                       <<Note("Departure only - no arrival evidence",
                                              "")>>)
                                EXCEPT !.supporting_events =
                                           <<sig.source_event>>])
                /\ current' = current
    /\ idx' = idx + 1
    /\ UNCHANGED <<pc, events, signals, sorted, assembled, merged, dedupVars, gapVars>>

\* variant: only a PRESENT signal strictly stronger than 0.7 overrides
HandlePresent_StrictlyStronger ==
    /\ AtSignal("present")
    /\ LET sig == sorted[idx]
       IN  IF current # <<>> /\ Lower(current[1].city) = Lower(sig.city)
           THEN /\ current' =
                     IF ~EventIn(sig.source_event,
                                 current[1].supporting_events)
                     THEN <<[current[1] EXCEPT
                                !.supporting_events =
                                    Append(@, sig.source_event)]>>
                     ELSE current
                /\ visits' = visits
           ELSE IF current # <<>>
           THEN IF sig.strength > PRESENT_OVERRIDE_STRENGTH
                THEN /\ visits' =
                          Append(visits,
                                 InferExit(current[1], sig.dt,
                                           "inferred_from_presence_elsewhere",
                                           Note("Exit inferred from presence in",
                                                sig.city)))
                     /\ current' = <<OpenVisit(sig, <<>>)>>
                ELSE UNCHANGED <<visits, current>>
           ELSE /\ current' =
                     <<OpenVisit(sig,
                                 <<Note("Started from PRESENT signal only",
                                        "")>>)>>
                /\ visits' = visits
    /\ idx' = idx + 1
    /\ UNCHANGED <<pc, events, signals, sorted, assembled, merged, dedupVars, gapVars>>

\* loop body, `elif sig.signal_type == SignalType.PRESENT`
HandlePresent ==
    /\ AtSignal("present")
    /\ LET sig == sorted[idx]
       IN  IF current # <<>> /\ Lower(current[1].city) = Lower(sig.city)
           THEN /\ current' =
                     IF ~EventIn(sig.source_event,
                                 current[1].supporting_events)
                     THEN <<[current[1] EXCEPT
                                !.supporting_events =
                                    Append(@, sig.source_event)]>>
                     ELSE current
                /\ visits' = visits
           ELSE IF current # <<>>
           THEN IF sig.strength >= PRESENT_OVERRIDE_STRENGTH
                THEN /\ visits' =
                          Append(visits,
                                 InferExit(current[1], sig.dt,
                                           "inferred_from_presence_elsewhere",
                                           Note("Exit inferred from presence in",
                                                sig.city)))
                     /\ current' = <<OpenVisit(sig, <<>>)>>
                ELSE UNCHANGED <<visits, current>>
           ELSE /\ current' =
                     <<OpenVisit(sig,
                                 <<Note("Started from PRESENT signal only",
                                        "")>>)>>
                /\ visits' = visits
    /\ idx' = idx + 1
    /\ UNCHANGED <<pc, events, signals, sorted, assembled, merged, dedupVars, gapVars>>

\* variant: the end of the loop without the `if current is not None` block
AssembleFinish_DropsOpenVisit ==
    /\ pc = "walk"
    /\ idx > Len(sorted)
    /\ LET done == [k \in 1..Len(visits) |-> PostProcess(visits[k])]
       IN  /\ visits' = done
           /\ assembled' = done
    /\ current' = <<>>
    /\ pc' = "merge"
    /\ UNCHANGED <<events, signals, sorted, idx, merged, dedupVars, gapVars>>

\* after the loop: close any remaining visit, post-process, return
AssembleFinish ==
    /\ pc = "walk"
    /\ idx > Len(sorted)
    /\ LET closed ==
               IF current # <<>>
               THEN Append(visits,
                           IF current[1].exit_date = NoDate
                           THEN [current[1] EXCEPT !.notes =
                                    Append(@, Note("No exit evidence - visit may still be ongoing or exit unknown", ""))]
                           ELSE current[1])
               ELSE visits
           done == [k \in 1..Len(closed) |-> PostProcess(closed[k])]
       IN  /\ visits' = done
           /\ assembled' = done
    /\ current' = <<>>
    /\ pc' = "merge"
    /\ UNCHANGED <<events, signals, sorted, idx, merged, dedupVars, gapVars>>

-----------------------------------------------------------------------------
(* timeline.py: merge_consecutive_visits *)

AccommodationKey(a) ==
    IF a.confirmation # ""
    THEN [confirmation |-> a.confirmation, name |-> "", check_in |-> NoDate,
          check_out |-> NoDate]
    ELSE [confirmation |-> "", name |-> a.name, check_in |-> a.check_in,
          check_out |-> a.check_out]

RECURSIVE DedupAccommodationsFrom(_, _, _)
DedupAccommodationsFrom(accs, k, seen) ==
    IF k > Len(accs) THEN <<>>
    ELSE IF AccommodationKey(accs[k]) \in seen
    THEN DedupAccommodationsFrom(accs, k + 1, seen)
    ELSE <<accs[k]>>
         \o DedupAccommodationsFrom(accs, k + 1,
                                    seen \cup {AccommodationKey(accs[k])})

dedup_accommodations(accs) == DedupAccommodationsFrom(accs, 1, {})

RECURSIVE FilterNotes(_)
FilterNotes(notes) ==
    IF notes = <<>> THEN <<>>
    ELSE (IF Head(notes).text = "Started from PRESENT signal only" THEN <<>>
          ELSE <<Head(notes)>>)
         \o FilterNotes(Tail(notes))

\* variant: finalizing without recomputing the confidence
Finalize_KeepsScore(v) ==
    LET a == [v EXCEPT !.accommodations = dedup_accommodations(@)]
    IN  [a EXCEPT !.notes = FilterNotes(@)]

\* "Finalize current": dedup accommodations, rescore, strip the noise note
Finalize(v) ==
    LET a == [v EXCEPT !.accommodations = dedup_accommodations(@)]
    IN  [a EXCEPT !.confidence = score_confidence(a),
                  !.notes = FilterNotes(@)]

\* gap_days, None when either boundary date is missing
GapDetermined(cur, nxt) ==
    /\ OrDate(cur.exit_date, cur.enter_date) # NoDate
    /\ OrDate(nxt.enter_date, nxt.exit_date) # NoDate

GapDays(cur, nxt) ==
    OrDate(nxt.enter_date, nxt.exit_date)
        - OrDate(cur.exit_date, cur.enter_date)

\* variant: a merge window one day wider
should_merge_WiderGap(cur, nxt) ==
    /\ Lower(cur.city) = Lower(nxt.city)
    /\ (~GapDetermined(cur, nxt) \/ GapDays(cur, nxt) <= MERGE_GAP_DAYS + 1)

\* variant: only visits that touch on the same day are merged
should_merge_SameDay(cur, nxt) ==
    /\ Lower(cur.city) = Lower(nxt.city)
    /\ (~GapDetermined(cur, nxt) \/ GapDays(cur, nxt) <= MERGE_GAP_DAYS - 1)

should_merge(cur, nxt) ==
    /\ Lower(cur.city) = Lower(nxt.city)
    /\ (~GapDetermined(cur, nxt) \/ GapDays(cur, nxt) <= MERGE_GAP_DAYS)

RECURSIVE UnionEvents(_, _)
UnionEvents(supp, more) ==
    IF more = <<>> THEN supp
    ELSE UnionEvents(IF EventIn(Head(more), supp) THEN supp
                     ELSE Append(supp, Head(more)),
                     Tail(more))

\* variant: an extension that takes the events but not the dates
Extend_KeepDates(cur, nxt) ==
    [cur EXCEPT
        !.supporting_events = UnionEvents(@, nxt.supporting_events),
        !.accommodations = @ \o nxt.accommodations,
        !.activities = @ \o nxt.activities]

\* the `if should_merge:` branch: extend the running visit by nxt
Extend(cur, nxt) ==
    LET e == IF nxt.enter_date # NoDate
                /\ (cur.enter_date = NoDate
                    \/ nxt.enter_date < cur.enter_date)
             THEN [cur EXCEPT !.enter_date = nxt.enter_date,
                              !.enter_method = nxt.enter_method]
             ELSE cur
        x == IF nxt.exit_date # NoDate
                /\ (e.exit_date = NoDate \/ nxt.exit_date > e.exit_date)
             THEN [e EXCEPT !.exit_date = nxt.exit_date,
                            !.exit_method = nxt.exit_method]
             ELSE e
        m == IF ContainsInferred(x.enter_method)
                /\ ~ContainsInferred(nxt.enter_method)
             THEN [x EXCEPT !.enter_method = nxt.enter_method]
             ELSE x
        n == IF ContainsInferred(m.exit_method)
                /\ ~ContainsInferred(nxt.exit_method)
             THEN [m EXCEPT !.exit_method = nxt.exit_method]
             ELSE m
    IN  [n EXCEPT
            !.supporting_events = UnionEvents(@, nxt.supporting_events),
            !.accommodations = @ \o nxt.accommodations,
            !.activities = @ \o nxt.activities]

\* merge_consecutive_visits: the empty check, current = visits[0]
MergeStart ==
    /\ pc = "merge"
    /\ IF visits = <<>>
       THEN /\ pc' = "done"
            /\ current' = <<>>
       ELSE /\ pc' = "merging"
            /\ current' = <<visits[1]>>
    /\ merged' = <<>>
    /\ idx' = 2
    /\ UNCHANGED <<events, signals, sorted, visits, assembled, dedupVars, gapVars>>

\* loop body, should_merge
MergeExtend ==
    /\ pc = "merging"
    /\ idx <= Len(visits)
    /\ should_merge(current[1], visits[idx])
    /\ current' = <<Extend(current[1], visits[idx])>>
    /\ idx' = idx + 1
    /\ UNCHANGED <<pc, events, signals, sorted, visits, assembled, merged,
                   dedupVars, gapVars>>

\* loop body, not should_merge: finalize current and start new
MergeSplit ==
    /\ pc = "merging"
    /\ idx <= Len(visits)
    /\ ~should_merge(current[1], visits[idx])
    /\ merged' = Append(merged, Finalize(current[1]))
    /\ current' = <<visits[idx]>>
    /\ idx' = idx + 1
    /\ UNCHANGED <<pc, events, signals, sorted, visits, assembled, dedupVars, gapVars>>

\* after the loop: finalize last, return merged
MergeFinish ==
    /\ pc = "merging"
    /\ idx > Len(visits)
    /\ merged' = Append(merged, Finalize(current[1]))
    /\ current' = <<>>
    /\ pc' = "done"
    /\ UNCHANGED <<events, signals, sorted, idx, visits, assembled, dedupVars, gapVars>>

\* --- merge_consecutive_visits as a function of the list it is given ---

\* the loop from visits[k] on, `cur` being the running visit
RECURSIVE MergeFrom(_, _, _)
MergeFrom(cur, vs, k) ==
    IF k > Len(vs) THEN <<Finalize(cur)>>
    ELSE IF should_merge(cur, vs[k])
    THEN MergeFrom(Extend(cur, vs[k]), vs, k + 1)
    ELSE <<Finalize(cur)>> \o MergeFrom(vs[k], vs, k + 1)

merge_consecutive_visits(vs) ==
    IF vs = <<>> THEN <<>> ELSE MergeFrom(vs[1], vs, 2)

-----------------------------------------------------------------------------
(* Inputs of build_timeline *)

CityLocs == {NoLocation} \cup {Loc(c) : c \in Cities}

\* --- every single event (SpecSingle) ---

TransportEvents ==
    {TravelEvent(t, s, e, o, d, "", "", "", "", <<>>) :
        t \in {"flight", "rail", "bus_ferry"}, s \in DateOpt, e \in DateOpt,
        o \in CityLocs, d \in CityLocs}

LegSet ==
    {FlightLeg(o, d, dep, arr) :
        o \in {NoLocation, Loc("Paris"), Loc("Rome")},
        d \in {NoLocation, Loc("paris"), Loc("Rome")},
        dep \in DateOpt, arr \in {NoDate, MaxDate}}

LegFlightEvents ==
    {TravelEvent("flight", s, NoDate, NoLocation, NoLocation, "", "", "", "",
                 legs) :
        s \in {NoDate, 0},
        legs \in UNION {[1..n -> LegSet] : n \in 1..MaxLegs}}

HotelEvents ==
    {TravelEvent("hotel", s, e, NoLocation, d, "", prov, prop, "", <<>>) :
        s \in DateOpt, e \in DateOpt, d \in CityLocs, prov \in {"", "Hilton"},
        prop \in {"", "Ritz"}}

CarRentalEvents ==
    {TravelEvent("car_rental", s, e, o, d, "", "", "", "", <<>>) :
        s \in DateOpt, e \in DateOpt, o \in CityLocs, d \in CityLocs}

TourEvents ==
    {TravelEvent("tour", s, NoDate, NoLocation, d, "", "", "", act, <<>>) :
        s \in DateOpt, d \in CityLocs, act \in {"", "Sagrada"}}

SingleEvents ==
    TransportEvents \cup LegFlightEvents \cup HotelEvents
        \cup CarRentalEvents \cup TourEvents

\* --- the events that lists are drawn from (Spec) ---

\* one-way flights on one date: a departure with no known destination, an
\* arrival with no known origin, and both directions between two cities
FlightRoutes ==
    {<<Loc("Paris"), NoLocation>>, <<NoLocation, Loc("paris")>>,
     <<Loc("Paris"), Loc("Rome")>>, <<Loc("Rome"), Loc("paris")>>}

ListFlights ==
    {TravelEvent("flight", s, NoDate, r[1], r[2], "", "", "", "", <<>>) :
        s \in Dates, r \in FlightRoutes}

\* a round trip booked as one event: out on s, back the next day
ListRoundTrips ==
    {TravelEvent("flight", s, NoDate, NoLocation, NoLocation, "", "", "", "",
                 <<FlightLeg(Loc("Paris"), Loc("Rome"), s, NoDate),
                   FlightLeg(Loc("Rome"), Loc("Paris"), s + 1, NoDate)>>) :
        s \in 0..(MaxDate - 1)}

\* a named hotel in Paris, an unnamed one in Rome; open-ended or one/two nights
ListHotels ==
    {TravelEvent("hotel", s, e, NoLocation, h[1], "", "", h[2], "", <<>>) :
        s \in Dates, e \in DateOpt,
        h \in {<<Loc("Paris"), "Ritz">>, <<Loc("Rome"), "">>}}
    \ {ev \in
        {TravelEvent("hotel", s, e, NoLocation, h[1], "", "", h[2], "", <<>>) :
            s \in Dates, e \in Dates,
            h \in {<<Loc("Paris"), "Ritz">>, <<Loc("Rome"), "">>}} :
        ev.end_date <= ev.start_date \/ ev.end_date > ev.start_date + 2}

ListRail ==
    {TravelEvent("rail", s, NoDate, Loc("Rome"), Loc("Paris"), "", "", "", "",
                 <<>>) : s \in Dates}
    \cup {TravelEvent("bus_ferry", s, NoDate, Loc("paris"), Loc("Rome"), "",
                      "", "", "", <<>>) : s \in Dates}

ListCarRentals ==
    {TravelEvent("car_rental", s, NoDate, Loc("Rome"), NoLocation, "", "", "",
                 "", <<>>) : s \in Dates}

ListTours ==
    {TravelEvent("tour", s, NoDate, NoLocation, Loc(c), "", "", "", "Sagrada",
                 <<>>) : s \in Dates, c \in {"paris", "Rome"}}

ListEvents ==
    ListFlights \cup ListRoundTrips \cup ListHotels \cup ListRail
        \cup ListCarRentals \cup ListTours

EventLists(U) == UNION {[1..n -> U] : n \in 1..MaxEvents}

DedupIdle ==
    /\ heap = <<>>
    /\ by_conf = <<>>
    /\ no_conf = <<>>
    /\ used = {}
    /\ primary = 0
    /\ rest = <<>>
    /\ deduped = <<>>

GapsIdle ==
    /\ augmented = <<>>
    /\ gaps = <<>>

InitTimeline(inputs) ==
    /\ pc = "start"
    /\ events \in inputs
    /\ signals = <<>>
    /\ sorted = <<>>
    /\ idx = 1
    /\ current = <<>>
    /\ visits = <<>>
    /\ assembled = <<>>
    /\ merged = <<>>
    /\ DedupIdle
    /\ GapsIdle

Init == InitTimeline(EventLists(ListEvents))

InitSingle == InitTimeline({<<ev>> : ev \in SingleEvents})

Next ==
    \/ BuildTimelineStart
    \/ AssembleStart
    \/ HandleEnter
    \/ HandleExit
    \/ HandlePresent
    \/ AssembleFinish
    \/ MergeStart
    \/ MergeExtend
    \/ MergeSplit
    \/ MergeFinish

Spec == Init /\ [][Next]_vars

SpecSingle == InitSingle /\ [][Next]_vars

\* --- an event followed by one that only places the traveller (SpecPresence):
\* --- a tour, a car rental or a hotel stay after any event of the lists
PresenceEvents == ListTours \cup ListCarRentals \cup ListHotels

InitPresence ==
    InitTimeline({<<a, b>> : a \in ListEvents, b \in PresenceEvents})

SpecPresence == InitPresence /\ [][Next]_vars

\* --- one stay in Paris told by several events (SpecTrip): an arrival, a
\* --- departure, a named hotel from day 0, a tour on any day
TripEvents ==
    {TravelEvent("flight", 0, NoDate, NoLocation, Loc("paris"), "", "", "",
                 "", <<>>)}
    \cup {TravelEvent("flight", s, NoDate, Loc("Paris"), NoLocation, "", "",
                      "", "", <<>>) : s \in {0, MaxDate}}
    \cup {TravelEvent("hotel", 0, e, NoLocation, Loc("Paris"), "", "", "Ritz",
                      "", <<>>) : e \in {NoDate} \cup 1..MaxDate}
    \cup {TravelEvent("tour", s, NoDate, NoLocation, Loc("paris"), "", "", "",
                      "Sagrada", <<>>) : s \in Dates}

InitTrip == InitTimeline([1..TripLength -> TripEvents])

SpecTrip == InitTrip /\ [][Next]_vars

-----------------------------------------------------------------------------
(* sort_signals on its own *)

SortInputs ==
    {CitySignal(t, c, dt, 10, 1, "") :
        t \in {"enter", "exit", "present"}, c \in {"Paris", "Rome"},
        dt \in Dates}

InitSort ==
    /\ pc = "sort"
    /\ signals \in UNION {[1..n -> SortInputs] : n \in 0..MaxSignals}
    /\ events = <<>>
    /\ sorted = <<>>
    /\ idx = 1
    /\ current = <<>>
    /\ visits = <<>>
    /\ assembled = <<>>
    /\ merged = <<>>
    /\ DedupIdle
    /\ GapsIdle

SortSignals ==
    /\ pc = "sort"
    /\ sorted' = sort_signals(signals)
    /\ pc' = "sorted"
    /\ UNCHANGED <<events, signals, idx, current, visits, assembled, merged,
                   dedupVars, gapVars>>

NextSort == SortSignals

SpecSort == InitSort /\ [][NextSort]_vars

-----------------------------------------------------------------------------
(* gap_detector.py: detect_gaps *)

EUROPEAN_CITIES ==
    {"Barcelona", "Madrid", "Paris", "London", "Rome", "Milan", "Berlin",
     "Amsterdam", "Brussels", "Lisbon", "Vienna", "Prague", "Budapest",
     "Zurich", "Geneva", "Copenhagen", "Stockholm", "Oslo", "Helsinki",
     "Dublin", "Edinburgh", "Athens", "Istanbul", "Warsaw", "Bordeaux",
     "Malaga", "Palma de Mallorca", "Fuerteventura", "Frankfurt",
     "Munich", "Hamburg", "Moscow", "Minsk", "St. Petersburg",
     "Tel Aviv"}

HOME_BASE_EUROPE == "Barcelona"

\* variant: the sort key with the two dates swapped
VisitSortKey_ExitFirst(v) ==
    IF v.exit_date # NoDate THEN v.exit_date
    ELSE IF v.enter_date # NoDate THEN v.enter_date
    ELSE DATE_MAX

\* the sort key: v.enter_date or v.exit_date or date.max
VisitSortKey(v) ==
    IF v.enter_date # NoDate THEN v.enter_date
    ELSE IF v.exit_date # NoDate THEN v.exit_date
    ELSE DATE_MAX

InsertVisit(x, s) ==
    LET later == {k \in 1..Len(s) : VisitSortKey(x) < VisitSortKey(s[k])}
        pos == IF later = {} THEN Len(s) + 1
               ELSE CHOOSE k \in later : \A j \in later : k <= j
    IN  SubSeq(s, 1, pos - 1) \o <<x>> \o SubSeq(s, pos, Len(s))

RECURSIVE SortVisitsPrefix(_, _)
SortVisitsPrefix(s, n) ==
    IF n = 0 THEN <<>> ELSE InsertVisit(s[n], SortVisitsPrefix(s, n - 1))

SortVisits(s) == SortVisitsPrefix(s, Len(s))

\* variant: a threshold that is met rather than exceeded
ExceedsThreshold_AtLeast(gap_days) == gap_days >= GAP_THRESHOLD_DAYS

\* `if gap_days > GAP_THRESHOLD_DAYS`
ExceedsThreshold(gap_days) == gap_days > GAP_THRESHOLD_DAYS

\* gap.note: the f-string's text and the value it interpolates
GapNote(city, gap_days) ==
    IF city \in EUROPEAN_CITIES
    THEN [text |-> "Likely at home base", home |-> HOME_BASE_EUROPE,
          days |-> 0]
    ELSE [text |-> "No evidence for days", home |-> "", days |-> gap_days]

\* variant: the note chosen by the city after the gap
GapsBetween_NoteByNextCity(visit, next_visit) ==
    LET exit_date == OrDate(visit.exit_date, visit.enter_date)
        next_enter == OrDate(next_visit.enter_date, next_visit.exit_date)
        gap_days == next_enter - exit_date
    IN  IF exit_date # NoDate /\ next_enter # NoDate
           /\ ExceedsThreshold(gap_days)
        THEN <<Gap(visit.city, exit_date, next_visit.city, next_enter,
                   gap_days, GapNote(next_visit.city, gap_days))>>
        ELSE <<>>

\* the gaps the loop body appends for the pair (visit, next_visit)
GapsBetween(visit, next_visit) ==
    LET exit_date == OrDate(visit.exit_date, visit.enter_date)
        next_enter == OrDate(next_visit.enter_date, next_visit.exit_date)
        gap_days == next_enter - exit_date
    IN  IF exit_date # NoDate /\ next_enter # NoDate
           /\ ExceedsThreshold(gap_days)
        THEN <<Gap(visit.city, exit_date, next_visit.city, next_enter,
                   gap_days, GapNote(visit.city, gap_days))>>
        ELSE <<>>

\* the empty check and the sort
DetectGapsStart ==
    /\ pc = "gaps"
    /\ IF visits = <<>>
       THEN /\ pc' = "gaps_done"
            /\ sorted' = <<>>
       ELSE /\ pc' = "scan"
            /\ sorted' = SortVisits(visits)
    /\ augmented' = <<>>
    /\ gaps' = <<>>
    /\ idx' = 1
    /\ UNCHANGED <<events, signals, current, visits, assembled, merged,
                   dedupVars>>

\* loop body for sorted_visits[idx]
DetectGapsScan ==
    /\ pc = "scan"
    /\ idx <= Len(sorted)
    /\ augmented' = Append(augmented, sorted[idx])
    /\ gaps' = IF idx < Len(sorted)
               THEN gaps \o GapsBetween(sorted[idx], sorted[idx + 1])
               ELSE gaps
    /\ idx' = idx + 1
    /\ UNCHANGED <<pc, events, signals, sorted, current, visits, assembled,
                   merged, dedupVars>>

\* return augmented, gaps
DetectGapsFinish ==
    /\ pc = "scan"
    /\ idx > Len(sorted)
    /\ pc' = "gaps_done"
    /\ UNCHANGED <<events, signals, sorted, idx, current, visits, assembled,
                   merged, dedupVars, gapVars>>

GapDates ==
    {0, GAP_THRESHOLD_DAYS, GAP_THRESHOLD_DAYS + 1, GAP_THRESHOLD_DAYS + 6}

GapVisits ==
    {CityVisit(c, ed, "inferred", xd, "inferred", <<>>) :
        c \in {"Paris", "Tokyo"}, ed \in GapDates \cup {NoDate},
        xd \in GapDates \cup {NoDate}}

InitGaps ==
    /\ pc = "gaps"
    /\ visits \in UNION {[1..n -> GapVisits] : n \in 0..MaxVisits}
    /\ events = <<>>
    /\ signals = <<>>
    /\ sorted = <<>>
    /\ idx = 1
    /\ current = <<>>
    /\ assembled = <<>>
    /\ merged = <<>>
    /\ DedupIdle
    /\ GapsIdle

NextGaps ==
    \/ DetectGapsStart
    \/ DetectGapsScan
    \/ DetectGapsFinish

SpecGaps == InitGaps /\ [][NextGaps]_vars

-----------------------------------------------------------------------------
(* dedup.py *)

richness_score(event) ==
    (IF event.start_date # NoDate THEN 2 ELSE 0)
    + (IF event.end_date # NoDate THEN 2 ELSE 0)
    + (IF HasCity(event.origin) THEN 1 ELSE 0)
    + (IF HasCity(event.destination) THEN 1 ELSE 0)
    + (IF event.confirmation_number # "" THEN 1 ELSE 0)
    + (IF event.provider # "" THEN 1 ELSE 0)
    + (IF event.property_name # "" THEN 1 ELSE 0)
    + (IF event.activity_name # "" THEN 1 ELSE 0)
    + Len(event.legs)

\* the origin / destination branch of _merge_pair
MergeLocation(p, s) ==
    IF ~p.some /\ s.some THEN s
    ELSE IF p.some /\ s.some /\ p.city = "" /\ s.city # "" THEN s
    ELSE p

\* variant: the secondary's provider always wins
merge_pair_TakeProvider(p, s) ==
    [p EXCEPT
        !.start_date =
            IF p.start_date = NoDate /\ s.start_date # NoDate
            THEN s.start_date ELSE @,
        !.end_date =
            IF p.end_date = NoDate /\ s.end_date # NoDate
            THEN s.end_date ELSE @,
        !.origin = MergeLocation(p.origin, s.origin),
        !.destination = MergeLocation(p.destination, s.destination),
        !.confirmation_number =
            IF p.confirmation_number = "" /\ s.confirmation_number # ""
            THEN s.confirmation_number ELSE @,
        !.provider = IF s.provider # "" THEN s.provider ELSE @,
        !.property_name =
            IF p.property_name = "" /\ s.property_name # ""
            THEN s.property_name ELSE @,
        !.activity_name =
            IF p.activity_name = "" /\ s.activity_name # ""
            THEN s.activity_name ELSE @,
        !.legs = IF p.legs = <<>> /\ s.legs # <<>> THEN s.legs ELSE @]

merge_pair(p, s) ==
    [p EXCEPT
        !.start_date =
            IF p.start_date = NoDate /\ s.start_date # NoDate
            THEN s.start_date ELSE @,
        !.end_date =
            IF p.end_date = NoDate /\ s.end_date # NoDate
            THEN s.end_date ELSE @,
        !.origin = MergeLocation(p.origin, s.origin),
        !.destination = MergeLocation(p.destination, s.destination),
        !.confirmation_number =
            IF p.confirmation_number = "" /\ s.confirmation_number # ""
            THEN s.confirmation_number ELSE @,
        !.provider =
            IF p.provider = "" /\ s.provider # "" THEN s.provider ELSE @,
        !.property_name =
            IF p.property_name = "" /\ s.property_name # ""
            THEN s.property_name ELSE @,
        !.activity_name =
            IF p.activity_name = "" /\ s.activity_name # ""
            THEN s.activity_name ELSE @,
        !.legs = IF p.legs = <<>> /\ s.legs # <<>> THEN s.legs ELSE @]

Abs(n) == IF n < 0 THEN -n ELSE n

\* variant: a match that does not look at the date window
events_match_by_date_AnyWindow(a, b) ==
    LET a_date == OrDate(a.start_date, a.end_date)
        b_date == OrDate(b.start_date, b.end_date)
        a_dest == Lower(IF a.destination.some THEN a.destination.city ELSE "")
        b_dest == Lower(IF b.destination.some THEN b.destination.city ELSE "")
    IN  IF a.event_type # b.event_type THEN FALSE
        ELSE IF a_date = NoDate \/ b_date = NoDate THEN FALSE
        ELSE IF a_dest # "" /\ b_dest # "" /\ a_dest = b_dest THEN TRUE
        ELSE a.provider # "" /\ b.provider # ""
             /\ Lower(a.provider) = Lower(b.provider)

events_match_by_date(a, b) ==
    LET a_date == OrDate(a.start_date, a.end_date)
        b_date == OrDate(b.start_date, b.end_date)
        a_dest == Lower(IF a.destination.some THEN a.destination.city ELSE "")
        b_dest == Lower(IF b.destination.some THEN b.destination.city ELSE "")
    IN  IF a.event_type # b.event_type THEN FALSE
        ELSE IF a_date = NoDate \/ b_date = NoDate THEN FALSE
        ELSE IF Abs(a_date - b_date) > DEDUP_DATE_WINDOW_DAYS THEN FALSE
        ELSE IF a_dest # "" /\ b_dest # "" /\ a_dest = b_dest THEN TRUE
        ELSE a.provider # "" /\ b.provider # ""
             /\ Lower(a.provider) = Lower(b.provider)

\* conf = ev.confirmation_number.strip() if ev.confirmation_number else ""
ConfKey(ev) ==
    IF ev.confirmation_number # "" THEN Strip(ev.confirmation_number) ELSE ""

\* by_conf[conf].append(ev) into an insertion-ordered dict
RECURSIVE GroupByConf(_, _, _)
GroupByConf(evs, i, groups) ==
    IF i > Len(evs) THEN groups
    ELSE LET conf == ConfKey(evs[i])
             at == {g \in 1..Len(groups) : groups[g].conf = conf}
         IN  IF conf = "" THEN GroupByConf(evs, i + 1, groups)
             ELSE IF at = {}
             THEN GroupByConf(evs, i + 1,
                              Append(groups,
                                     [conf |-> conf, members |-> <<i>>]))
             ELSE GroupByConf(evs, i + 1,
                              [groups EXCEPT
                                  ![CHOOSE g \in at : TRUE].members =
                                      Append(@, i)])

RECURSIVE WithoutConf(_, _)
WithoutConf(evs, i) ==
    IF i > Len(evs) THEN <<>>
    ELSE (IF ConfKey(evs[i]) = "" THEN <<i>> ELSE <<>>)
         \o WithoutConf(evs, i + 1)

\* variant: the sort without reverse=True, poorest first
InsertByRichness_Ascending(h, x, s) ==
    LET richer == {k \in 1..Len(s) :
                      richness_score(h[s[k]]) > richness_score(h[x])}
        pos == IF richer = {} THEN Len(s) + 1
               ELSE CHOOSE k \in richer : \A j \in richer : k <= j
    IN  SubSeq(s, 1, pos - 1) \o <<x>> \o SubSeq(s, pos, Len(s))

\* group.sort(key=_richness_score, reverse=True): stable, richest first
InsertByRichness(h, x, s) ==
    LET poorer == {k \in 1..Len(s) :
                      richness_score(h[s[k]]) < richness_score(h[x])}
        pos == IF poorer = {} THEN Len(s) + 1
               ELSE CHOOSE k \in poorer : \A j \in poorer : k <= j
    IN  SubSeq(s, 1, pos - 1) \o <<x>> \o SubSeq(s, pos, Len(s))

RECURSIVE SortByRichnessPrefix(_, _, _)
SortByRichnessPrefix(h, s, n) ==
    IF n = 0 THEN <<>>
    ELSE InsertByRichness(h, s[n], SortByRichnessPrefix(h, s, n - 1))

SortByRichness(h, s) == SortByRichnessPrefix(h, s, Len(s))

\* variant: matches collected without the `if j in used: continue`
RECURSIVE MatchesOfSeed_IgnoreUsed(_, _, _, _, _)
MatchesOfSeed_IgnoreUsed(h, pool, taken, i, j) ==
    IF j > Len(pool) THEN <<>>
    ELSE (IF events_match_by_date(h[pool[i]], h[pool[j]])
          THEN <<j>> ELSE <<>>)
         \o MatchesOfSeed_IgnoreUsed(h, pool, taken, i, j + 1)

\* the later, not yet used events of no_conf that match the seed at position i
RECURSIVE MatchesOfSeed(_, _, _, _, _)
MatchesOfSeed(h, pool, taken, i, j) ==
    IF j > Len(pool) THEN <<>>
    ELSE (IF j \notin taken /\ events_match_by_date(h[pool[i]], h[pool[j]])
          THEN <<j>> ELSE <<>>)
         \o MatchesOfSeed(h, pool, taken, i, j + 1)

SeqRange(s) == {s[k] : k \in 1..Len(s)}

\* deduplicate: the empty check and phase 1's partition
DedupStart ==
    /\ pc = "dedup"
    /\ IF events = <<>>
       THEN /\ pc' = "dedup_done"
            /\ by_conf' = <<>>
            /\ no_conf' = <<>>
       ELSE /\ pc' = "phase1"
            /\ by_conf' = GroupByConf(events, 1, <<>>)
            /\ no_conf' = WithoutConf(events, 1)
    /\ heap' = events
    /\ deduped' = <<>>
    /\ idx' = 1
    /\ used' = {}
    /\ primary' = 0
    /\ rest' = <<>>
    /\ UNCHANGED <<events, timelineVars, gapVars>>

\* phase 1 loop: sort the next confirmation group, take its first as primary
ConfGroupStart ==
    /\ pc = "phase1"
    /\ idx <= Len(by_conf)
    /\ LET group == SortByRichness(heap, by_conf[idx].members)
       IN  /\ primary' = Head(group)
           /\ rest' = Tail(group)
    /\ pc' = "fold1"
    /\ UNCHANGED <<events, idx, timelineVars, heap, by_conf, no_conf, used,
                   deduped, gapVars>>

\* `primary = _merge_pair(primary, secondary)` for the next secondary
MergePair ==
    /\ pc \in {"fold1", "fold2"}
    /\ rest # <<>>
    /\ heap' = [heap EXCEPT ![primary] = merge_pair(@, heap[Head(rest)])]
    /\ rest' = Tail(rest)
    /\ UNCHANGED <<pc, events, idx, timelineVars, by_conf, no_conf, used,
                   primary, deduped, gapVars>>

\* merged.append(primary)
GroupDone ==
    /\ pc \in {"fold1", "fold2"}
    /\ rest = <<>>
    /\ deduped' = Append(deduped, primary)
    /\ pc' = IF pc = "fold1" THEN "phase1" ELSE "phase2"
    /\ idx' = idx + 1
    /\ UNCHANGED <<events, timelineVars, heap, by_conf, no_conf, used,
                   primary, rest, gapVars>>

\* phase 1 is over: used = set()
Phase2Start ==
    /\ pc = "phase1"
    /\ idx > Len(by_conf)
    /\ pc' = "phase2"
    /\ idx' = 1
    /\ used' = {}
    /\ UNCHANGED <<events, timelineVars, heap, by_conf, no_conf, primary,
                   rest, deduped, gapVars>>

\* phase 2 loop, `if i in used: continue`
SeedSkip ==
    /\ pc = "phase2"
    /\ idx <= Len(no_conf)
    /\ idx \in used
    /\ idx' = idx + 1
    /\ UNCHANGED <<pc, events, timelineVars, dedupVars, gapVars>>

\* phase 2 loop: group the seed with its later matches, sort, take primary
SeedGroup ==
    /\ pc = "phase2"
    /\ idx <= Len(no_conf)
    /\ idx \notin used
    /\ LET found == MatchesOfSeed(heap, no_conf, used, idx, idx + 1)
           group == SortByRichness(heap,
                                   <<no_conf[idx]>>
                                       \o [k \in 1..Len(found) |->
                                              no_conf[found[k]]])
       IN  /\ used' = used \cup SeqRange(found) \cup {idx}
           /\ primary' = Head(group)
           /\ rest' = Tail(group)
    /\ pc' = "fold2"
    /\ UNCHANGED <<events, idx, timelineVars, heap, by_conf, no_conf,
                   deduped, gapVars>>

\* return merged
DedupFinish ==
    /\ pc = "phase2"
    /\ idx > Len(no_conf)
    /\ pc' = "dedup_done"
    /\ UNCHANGED <<events, idx, timelineVars, dedupVars, gapVars>>

NextDedup ==
    \/ DedupStart
    \/ ConfGroupStart
    \/ MergePair
    \/ GroupDone
    \/ Phase2Start
    \/ SeedSkip
    \/ SeedGroup
    \/ DedupFinish

\* --- deduplicate as a function of the list it is given ---

\* primary = _merge_pair(primary, secondary) over group[1:]
RECURSIVE FoldGroup(_, _)
FoldGroup(p, secondaries) ==
    IF secondaries = <<>> THEN p
    ELSE FoldGroup(merge_pair(p, Head(secondaries)), Tail(secondaries))

\* group.sort(...); primary = group[0]; the fold; the surviving event
MergedGroup(evs, group) ==
    LET g == SortByRichness(evs, group)
    IN  FoldGroup(evs[Head(g)], [k \in 1..(Len(g) - 1) |-> evs[g[k + 1]]])

\* phase 2 from position i of no_conf, `taken` being the set `used`
RECURSIVE Phase2From(_, _, _, _)
Phase2From(evs, pool, i, taken) ==
    IF i > Len(pool) THEN <<>>
    ELSE IF i \in taken THEN Phase2From(evs, pool, i + 1, taken)
    ELSE LET found == MatchesOfSeed(evs, pool, taken, i, i + 1)
             group == <<pool[i]>> \o [k \in 1..Len(found) |-> pool[found[k]]]
         IN  <<MergedGroup(evs, group)>>
             \o Phase2From(evs, pool, i + 1,
                           taken \cup SeqRange(found) \cup {i})

deduplicate(evs) ==
    IF evs = <<>> THEN <<>>
    ELSE LET groups == GroupByConf(evs, 1, <<>>)
         IN  [g \in 1..Len(groups) |-> MergedGroup(evs, groups[g].members)]
             \o Phase2From(evs, WithoutConf(evs, 1), 1, {})

\* --- inputs: two extractions of a booking, A's values and B's values ---

DedupValues(x) ==
    IF x = "A"
    THEN [event_type |-> {"flight"},
          start_date |-> {0}, end_date |-> {1},
          origin |-> {Location("", "Fiumicino", "FCO", ""),
                      Location("Rome", "Roma", "", "IT")},
          destination |-> {Location("", "Charles de Gaulle", "CDG", ""),
                           Location("Paris", "Paris CDG", "", "FR")},
          confirmation_number |-> {"AB1"}, provider |-> {"Delta"},
          property_name |-> {"Ritz"}, activity_name |-> {"Sagrada"},
          legs |-> {<<FlightLeg(Loc("Rome"), Loc("Paris"), 0, NoDate)>>}]
    ELSE [event_type |-> {"flight", "hotel"},
          start_date |-> {1}, end_date |-> {2},
          origin |-> {Location("", "FCO", "", "IT"),
                      Location("Rome", "", "FCO", "")},
          destination |-> {Location("", "cdg airport", "", "FR"),
                           Location("paris", "", "CDG", "")},
          confirmation_number |-> {"AB1 "}, provider |-> {"delta"},
          property_name |-> {"Ritz Paris"}, activity_name |-> {"Sagrada tour"},
          legs |-> {<<FlightLeg(Loc("Rome"), Loc("paris"), 1, NoDate),
                      FlightLeg(Loc("paris"), Loc("Rome"), 2, NoDate)>>}]

Populated(ev) ==
    (IF ev.start_date # NoDate THEN 1 ELSE 0)
    + (IF ev.end_date # NoDate THEN 1 ELSE 0)
    + (IF ev.origin.some THEN 1 ELSE 0)
    + (IF ev.destination.some THEN 1 ELSE 0)
    + (IF ev.confirmation_number # "" THEN 1 ELSE 0)
    + (IF ev.provider # "" THEN 1 ELSE 0)
    + (IF ev.property_name # "" THEN 1 ELSE 0)
    + (IF ev.activity_name # "" THEN 1 ELSE 0)
    + (IF ev.legs # <<>> THEN 1 ELSE 0)

DedupEvents(x) ==
    LET v == DedupValues(x)
    IN  {ev \in
            {TravelEvent(t, s, e, o, d, conf, prov, prop, act, legs) :
                t \in v.event_type,
                s \in v.start_date \cup {NoDate},
                e \in v.end_date \cup {NoDate},
                o \in v.origin \cup {NoLocation},
                d \in v.destination \cup {NoLocation},
                conf \in v.confirmation_number \cup {""},
                prov \in v.provider \cup {""},
                prop \in v.property_name \cup {""},
                act \in v.activity_name \cup {""},
                legs \in v.legs \cup {<<>>}} :
            Populated(ev) <= MaxPopulated}

InitDedupPair ==
    /\ pc = "dedup"
    /\ \E a \in DedupEvents("A") : \E b \in DedupEvents("B") :
          events = <<a, b>>
    /\ signals = <<>>
    /\ sorted = <<>>
    /\ idx = 1
    /\ current = <<>>
    /\ visits = <<>>
    /\ assembled = <<>>
    /\ merged = <<>>
    /\ DedupIdle
    /\ GapsIdle

SpecDedupPair == InitDedupPair /\ [][NextDedup]_vars

\* --- inputs: short lists of bookings, with and without confirmation ---

DedupListEvents ==
    {TravelEvent("flight", 0, NoDate, NoLocation, Loc("Paris"),
                 "", "", "", "", <<>>),
     TravelEvent("flight", 1, NoDate, NoLocation, Loc("paris"),
                 "", "Delta", "", "", <<>>),
     TravelEvent("flight", 3, NoDate, Loc("Rome"), Loc("Paris"),
                 "", "delta", "", "", <<>>),
     TravelEvent("flight", NoDate, 2, NoLocation, Loc("Rome"),
                 "", "Delta", "", "", <<>>),
     TravelEvent("flight", NoDate, NoDate, NoLocation, Loc("Paris"),
                 "", "Delta", "", "", <<>>),
     TravelEvent("hotel", 1, 2, NoLocation, Loc("Paris"),
                 "", "Delta", "Ritz", "", <<>>),
     TravelEvent("flight", 1, NoDate, NoLocation,
                 Location("", "CDG", "", ""), "", "united", "", "", <<>>),
     TravelEvent("flight", 0, NoDate, NoLocation, NoLocation,
                 "", "united", "", "", <<>>),
     TravelEvent("flight", 0, NoDate, NoLocation, NoLocation,
                 "AB1", "", "", "", <<>>),
     TravelEvent("flight", 1, 2, NoLocation, Loc("paris"),
                 "AB1 ", "Delta", "", "", <<>>),
     TravelEvent("hotel", 1, NoDate, NoLocation, Loc("Rome"),
                 "XY2", "", "Ritz", "", <<>>),
     TravelEvent("hotel", 1, NoDate, NoLocation, Loc("Paris"),
                 " ", "", "", "", <<>>)}

InitDedupList ==
    /\ pc = "dedup"
    /\ events \in UNION {[1..n -> DedupListEvents] : n \in 0..MaxDedupEvents}
    /\ signals = <<>>
    /\ sorted = <<>>
    /\ idx = 1
    /\ current = <<>>
    /\ visits = <<>>
    /\ assembled = <<>>
    /\ merged = <<>>
    /\ DedupIdle
    /\ GapsIdle

SpecDedupList == InitDedupList /\ [][NextDedup]_vars

\* --- merge_consecutive_visits on its own: chronologically ordered lists ---

BothDatesKnown(v) == v.enter_date # NoDate /\ v.exit_date # NoDate

MergeVisits ==
    {v \in {CityVisit(c, ed,
                      IF ed = NoDate THEN "inferred" ELSE "flight_arrival",
                      xd,
                      IF xd = NoDate THEN "inferred" ELSE "flight_departure",
                      <<>>) :
               c \in Cities, ed \in DateOpt, xd \in DateOpt} :
        BothDatesKnown(v) => v.enter_date <= v.exit_date}

\* the order assemble_visits emits: no visit starts before its predecessor ends
Chronological(vs) ==
    \A k \in 1..(Len(vs) - 1) :
        GapDetermined(vs[k], vs[k + 1]) => GapDays(vs[k], vs[k + 1]) >= 0

InitMerge ==
    /\ pc = "merge"
    /\ visits \in {vs \in UNION {[1..n -> MergeVisits] : n \in 0..MaxVisits} :
                      Chronological(vs)}
    /\ events = <<>>
    /\ signals = <<>>
    /\ sorted = <<>>
    /\ idx = 1
    /\ current = <<>>
    /\ assembled = <<>>
    /\ merged = <<>>
    /\ DedupIdle
    /\ GapsIdle

NextMerge ==
    \/ MergeStart
    \/ MergeExtend
    \/ MergeSplit
    \/ MergeFinish

SpecMerge == InitMerge /\ [][NextMerge]_vars

-----------------------------------------------------------------------------
(* Properties of build_timeline *)

Done == pc = "done"
Assembled == pc \in {"merge", "merging", "done"}

BothDatesSet(v) == v.enter_date # NoDate /\ v.exit_date # NoDate

NoDuplicates(seq) ==
    \A i \in 1..Len(seq) : \A j \in 1..Len(seq) : seq[i] = seq[j] => i = j

HasNote(v, text) == \E k \in 1..Len(v.notes) : v.notes[k].text = text

UnresolvedExitNote ==
    "No exit evidence - visit may still be ongoing or exit unknown"

\* C1: every CityVisit returned by build_timeline with both dates set has
\* enter_date <= exit_date.
C1_EnterNotAfterExit ==
    Done => \A k \in 1..Len(merged) :
                BothDatesSet(merged[k]) =>
                    merged[k].enter_date <= merged[k].exit_date

\* C2: no TravelEvent occurs more than once in the supporting_events of a
\* visit produced by assemble_visits or returned by build_timeline.
C2_SupportingEventsAreASet ==
    /\ Assembled =>
          \A k \in 1..Len(assembled) :
              NoDuplicates(assembled[k].supporting_events)
    /\ Done =>
          \A k \in 1..Len(merged) : NoDuplicates(merged[k].supporting_events)

SignalCitiesOf(i) ==
    {signals[k].city : k \in {n \in 1..Len(signals) :
                                 signals[n].source_event = i}}

VisitsSupportedBy(i) ==
    {k \in 1..Len(merged) :
        \E n \in 1..Len(merged[k].supporting_events) :
            merged[k].supporting_events[n] = i}

\* C6: the supporting_events of the returned visits are events of the input,
\* and an event supports more than one returned visit only if it produced
\* signals for more than one city.
C6_NoDoubleCounting ==
    Done =>
        /\ \A k \in 1..Len(merged) :
              \A n \in 1..Len(merged[k].supporting_events) :
                  merged[k].supporting_events[n] \in 1..Len(events)
        /\ \A i \in 1..Len(events) :
              Cardinality(VisitsSupportedBy(i)) > 1 =>
                  Cardinality(SignalCitiesOf(i)) > 1

\* the input of C8: one leg-less FLIGHT with known origin and destination
\* cities and a start_date, no end_date
OneLeglessFlight ==
    /\ Len(events) = 1
    /\ events[1].event_type = "flight"
    /\ events[1].legs = <<>>
    /\ HasCity(events[1].origin)
    /\ HasCity(events[1].destination)
    /\ events[1].start_date # NoDate
    /\ events[1].end_date = NoDate

IsOpenArrival(v, ev) ==
    /\ v.city = ev.destination.city
    /\ v.enter_date = ev.start_date
    /\ v.exit_date = NoDate
    /\ HasNote(v, UnresolvedExitNote)

\* C8 as stated: such an input yields exactly one CityVisit, the destination
\* with enter_date = start_date, exit_date unset and the unresolved-exit note.
C8_OneVisitForOneFlight ==
    (Done /\ OneLeglessFlight) =>
        /\ Len(merged) = 1
        /\ IsOpenArrival(merged[1], events[1])

\* C8 amended: the EXIT at the origin is sorted first and emitted as a
\* departure-only visit, so the destination visit is the second of two visits;
\* when origin and destination are the same city ignoring case the two merge
\* into one visit of that city with enter_date = exit_date = start_date.
C8_DepartureThenOpenArrival ==
    (Done /\ OneLeglessFlight) =>
        LET ev == events[1]
        IN  IF Lower(ev.origin.city) # Lower(ev.destination.city)
            THEN /\ Len(merged) = 2
                 /\ merged[1].city = ev.origin.city
                 /\ merged[1].enter_date = NoDate
                 /\ merged[1].exit_date = ev.start_date
                 /\ IsOpenArrival(merged[2], ev)
            ELSE /\ Len(merged) = 1
                 /\ merged[1].city = ev.origin.city
                 /\ merged[1].enter_date = ev.start_date
                 /\ merged[1].exit_date = ev.start_date

C8_Witness ==
    /\ Done
    /\ OneLeglessFlight
    /\ Len(merged) = 2
    /\ merged[2].exit_date = NoDate

\* the input of C9: one HOTEL with a known city and start_date < end_date
OneHotelStay ==
    /\ Len(events) = 1
    /\ events[1].event_type = "hotel"
    /\ HasCity(events[1].destination)
    /\ events[1].start_date # NoDate
    /\ events[1].end_date # NoDate
    /\ events[1].start_date < events[1].end_date

\* C9 as stated: assemble_visits produces exactly one visit for such a stay,
\* spanning start_date to end_date.
C9_AssemblerYieldsOneVisit ==
    (Assembled /\ OneHotelStay) =>
        /\ Len(assembled) = 1
        /\ assembled[1].enter_date = events[1].start_date
        /\ assembled[1].exit_date = events[1].end_date

\* C9 amended: the PRESENT of the first night sorts before the ENTER of the
\* same date, so assemble_visits produces two visits (a zero-length one opened
\* by that PRESENT, then start_date..end_date); merge_consecutive_visits
\* collapses them into the one visit spanning start_date..end_date.
C9_OneVisitAfterMerge ==
    (Assembled /\ OneHotelStay) =>
        /\ Len(assembled) = 2
        /\ assembled[1].enter_date = events[1].start_date
        /\ assembled[1].exit_date = events[1].start_date
        /\ assembled[2].enter_date = events[1].start_date
        /\ assembled[2].exit_date = events[1].end_date
        /\ Done =>
              /\ Len(merged) = 1
              /\ merged[1].city = events[1].destination.city
              /\ merged[1].enter_date = events[1].start_date
              /\ merged[1].exit_date = events[1].end_date

C9_Witness ==
    /\ Done
    /\ OneHotelStay
    /\ events[1].end_date - events[1].start_date >= 2
    /\ Len(merged) = 1

OneHotelWithCity ==
    /\ pc # "start"
    /\ Len(events) = 1
    /\ events[1].event_type = "hotel"
    /\ HasCity(events[1].destination)

\* the PRESENT signals generated for date d
PresentOn(d) ==
    {k \in 1..Len(signals) :
        signals[k].signal_type = "present" /\ signals[k].dt = d}

\* C15: a hotel event with a known city yields one PRESENT signal (strength
\* 0.9, hotel_stay) for each date from start_date up to but not including
\* end_date when both are known, and exactly one PRESENT signal, on the known
\* date, when only start_date or only end_date is known.
C15_HotelPresentPerNight ==
    OneHotelWithCity =>
        LET ev == events[1]
            presents == {k \in 1..Len(signals) :
                            signals[k].signal_type = "present"}
        IN  /\ \A k \in presents :
                  /\ signals[k].strength = 9
                  /\ signals[k].method = "hotel_stay"
                  /\ signals[k].city = ev.destination.city
            /\ (ev.start_date # NoDate /\ ev.end_date # NoDate) =>
                  \A d \in (Dates \cup {signals[k].dt : k \in presents}) :
                      Cardinality(PresentOn(d))
                          = IF ev.start_date <= d /\ d < ev.end_date
                            THEN 1 ELSE 0
            /\ (ev.start_date # NoDate /\ ev.end_date = NoDate) =>
                  /\ Cardinality(presents) = 1
                  /\ Cardinality(PresentOn(ev.start_date)) = 1
            /\ (ev.start_date = NoDate /\ ev.end_date # NoDate) =>
                  /\ Cardinality(presents) = 1
                  /\ Cardinality(PresentOn(ev.end_date)) = 1

\* the same, without the case of an end_date alone
C15_HotelPresentStartKnown ==
    (OneHotelWithCity /\ events[1].start_date # NoDate) =>
        C15_HotelPresentPerNight

\* the assembler is at a signal for a city other than the open visit's
AtSignalElsewhere ==
    /\ pc = "walk"
    /\ idx <= Len(sorted)
    /\ current # <<>>
    /\ Lower(current[1].city) # Lower(sorted[idx].city)

FromCarRental(sig) == events[sig.source_event].event_type = "car_rental"

\* C16: a PRESENT signal weaker than 0.7 for a city other than the open
\* visit's leaves the open visit and the emitted visits as they are, and the
\* visit open.  A car rental generates only PRESENT signals of strength 0.5,
\* so its signals never close or alter an open visit in another city.
C16_WeakPresentIgnored ==
    /\ [][(AtSignalElsewhere /\ sorted[idx].signal_type = "present"
           /\ sorted[idx].strength < 7) =>
            /\ current' = current
            /\ visits' = visits
            /\ pc' = "walk"]_vars
    /\ [](\A k \in 1..Len(signals) :
             FromCarRental(signals[k]) =>
                 /\ signals[k].signal_type = "present"
                 /\ signals[k].strength = 5)
    /\ [][(AtSignalElsewhere /\ FromCarRental(sorted[idx])) =>
            /\ current' = current
            /\ visits' = visits]_vars

\* an arrival, then a car rental elsewhere on a later day: the visit is still
\* the arrival's alone
C16_Witness ==
    /\ Done
    /\ Len(events) = 2
    /\ events[2].event_type = "car_rental"
    /\ Len(sorted) = 2
    /\ sorted[1].signal_type = "enter"
    /\ FromCarRental(sorted[2])
    /\ sorted[2].dt > sorted[1].dt
    /\ Lower(sorted[2].city) # Lower(sorted[1].city)
    /\ Len(merged) = 1
    /\ merged[1].city = sorted[1].city
    /\ merged[1].exit_date = NoDate
    /\ merged[1].supporting_events = <<1>>

\* C19: signal generation, assembly and merging leave the list of events and
\* every field of every TravelEvent as they were given; the signals keep
\* describing the events they were generated from.
C19_EventsNeverMutated ==
    /\ [][events' = events]_vars
    /\ [](pc # "start" => signals = events_to_signals(events))

\* the pipeline has run to the end and the merger has joined two visits
C19_Witness ==
    /\ Done
    /\ Len(events) = 2
    /\ Len(assembled) = 2
    /\ Len(merged) = 1
    /\ merged[1].supporting_events = <<1, 2>>

AllSignalsConsumed == pc = "walk" /\ idx > Len(sorted)

\* C20: a visit still open when the last sorted signal has been consumed is
\* appended as the last visit of assemble_visits' output, its exit_date unset
\* and a note flagging the unresolved exit added; the visits emitted before
\* stay, and nothing is appended when no visit is open.
C20_OpenVisitClosedAtEnd ==
    /\ [][(AllSignalsConsumed /\ current # <<>>) =>
            LET open == current[1]
                last == visits'[Len(visits')]
            IN  /\ Len(visits') = Len(visits) + 1
                /\ assembled' = visits'
                /\ last.city = open.city
                /\ last.enter_date = open.enter_date
                /\ last.enter_method = open.enter_method
                /\ last.supporting_events = open.supporting_events
                /\ open.exit_date = NoDate
                /\ last.exit_date = NoDate
                /\ HasNote(last, UnresolvedExitNote)
                /\ ~HasNote(open, UnresolvedExitNote)
                /\ \A k \in 1..Len(visits) :
                      /\ visits'[k].city = visits[k].city
                      /\ visits'[k].enter_date = visits[k].enter_date
                      /\ visits'[k].exit_date = visits[k].exit_date
                      /\ visits'[k].notes = visits[k].notes]_vars
    /\ [][(AllSignalsConsumed /\ current = <<>>) =>
            Len(visits') = Len(visits)]_vars

\* the walk ended on an arrival: its visit is the last one returned, open
C20_Witness ==
    /\ pc = "merge"
    /\ sorted # <<>>
    /\ sorted[Len(sorted)].signal_type = "enter"
    /\ Len(assembled) = 2
    /\ assembled[2].city = sorted[Len(sorted)].city
    /\ assembled[2].exit_date = NoDate
    /\ HasNote(assembled[2], UnresolvedExitNote)
    /\ assembled[1].exit_date # NoDate

DepartureOnlyNote == "Departure only - no arrival evidence"

\* the last visit the assembler has emitted so far
LastEmitted == visits[Len(visits)]

\* C21: an EXIT signal processed while no visit is open appends one
\* departure-only visit for the signal's city (enter_date unset, enter_method
\* "inferred", exit_date and exit_method the signal's, the signal's source
\* event attached, the note "Departure only"), keeps the visits emitted
\* before, and leaves no visit open.
C21_ExitWithoutOpenVisit ==
    [][(AtSignal("exit") /\ current = <<>>) =>
          LET sig == sorted[idx]
              dep == visits'[Len(visits')]
          IN  /\ Len(visits') = Len(visits) + 1
              /\ visits' = Append(visits, dep)
              /\ dep.city = sig.city
              /\ dep.enter_date = NoDate
              /\ dep.enter_method = "inferred"
              /\ dep.exit_date = sig.dt
              /\ dep.exit_method = sig.method
              /\ dep.supporting_events = <<sig.source_event>>
              /\ dep.notes = <<Note(DepartureOnlyNote, "")>>
              /\ current' = <<>>
              /\ pc' = "walk"
              /\ idx' = idx + 1]_vars

\* a departure was the first signal: its standalone visit is emitted and no
\* visit is open
C21_Witness ==
    /\ pc = "walk"
    /\ idx = 2
    /\ sorted[1].signal_type = "exit"
    /\ current = <<>>
    /\ Len(visits) = 1
    /\ LastEmitted.city = sorted[1].city
    /\ LastEmitted.enter_date = NoDate
    /\ LastEmitted.exit_date = sorted[1].dt
    /\ HasNote(LastEmitted, DepartureOnlyNote)

\* the assembler is at a signal for the open visit's city, ignoring case
AtSignalSameCity ==
    /\ pc = "walk"
    /\ idx <= Len(sorted)
    /\ current # <<>>
    /\ Lower(current[1].city) = Lower(sorted[idx].city)

ExitFromElsewhereNote == "Closed: EXIT signal from"

\* C22: an EXIT signal for a city other than the open visit's (ignoring case)
\* closes the open visit with exit_date the signal's date and exit_method
\* "inferred_unknown", appends it to the output and leaves no visit open; no
\* visit of the signal's city is opened or emitted and the signal's source
\* event is not attached.  An EXIT for the open visit's city closes it with
\* the signal's date and method and attaches the signal's source event.
C22_ExitClosesOpenVisit ==
    /\ [][(AtSignalElsewhere /\ sorted[idx].signal_type = "exit") =>
            LET sig == sorted[idx]
                open == current[1]
                closed == visits'[Len(visits')]
            IN  /\ Len(visits') = Len(visits) + 1
                /\ visits' = Append(visits, closed)
                /\ closed.city = open.city
                /\ closed.enter_date = open.enter_date
                /\ closed.enter_method = open.enter_method
                /\ closed.exit_date = sig.dt
                /\ closed.exit_method = "inferred_unknown"
                /\ closed.supporting_events = open.supporting_events
                /\ HasNote(closed, ExitFromElsewhereNote)
                /\ current' = <<>>
                /\ pc' = "walk"]_vars
    /\ [][(AtSignalSameCity /\ sorted[idx].signal_type = "exit") =>
            LET sig == sorted[idx]
                open == current[1]
                closed == visits'[Len(visits')]
            IN  /\ Len(visits') = Len(visits) + 1
                /\ visits' = Append(visits, closed)
                /\ closed.city = open.city
                /\ closed.enter_date = open.enter_date
                /\ closed.enter_method = open.enter_method
                /\ closed.exit_date = sig.dt
                /\ closed.exit_method = sig.method
                /\ closed.supporting_events =
                       Append(open.supporting_events, sig.source_event)
                /\ closed.notes = open.notes
                /\ current' = <<>>
                /\ pc' = "walk"]_vars

\* an EXIT from another city has just closed the visit an arrival opened
C22_Witness ==
    /\ pc = "walk"
    /\ idx = 3
    /\ sorted[1].signal_type = "enter"
    /\ sorted[2].signal_type = "exit"
    /\ Lower(sorted[2].city) # Lower(sorted[1].city)
    /\ current = <<>>
    /\ Len(visits) = 1
    /\ LastEmitted.city = sorted[1].city
    /\ LastEmitted.exit_date = sorted[2].dt
    /\ LastEmitted.exit_method = "inferred_unknown"

\* an EXIT that names the open visit's city in another case has closed it
C22_WitnessSameCity ==
    /\ pc = "walk"
    /\ idx = 3
    /\ sorted[1].signal_type = "enter"
    /\ sorted[2].signal_type = "exit"
    /\ sorted[2].city # sorted[1].city
    /\ Lower(sorted[2].city) = Lower(sorted[1].city)
    /\ current = <<>>
    /\ Len(visits) = 1
    /\ LastEmitted.exit_method = sorted[2].method
    /\ Len(LastEmitted.supporting_events) = 2

FromTour(sig) == events[sig.source_event].event_type = "tour"

\* C23: a PRESENT signal of strength 0.7 or more for a city other than the
\* open visit's closes the open visit with exit_date the signal's date and
\* exit_method "inferred_from_presence_elsewhere", appends it to the output,
\* and opens a new visit with the signal's city, date and source event.  A
\* tour's signal is a PRESENT of strength exactly 0.7, so it overrides.
C23_StrongPresentOverrides ==
    /\ [][(AtSignalElsewhere /\ sorted[idx].signal_type = "present"
           /\ sorted[idx].strength >= 7) =>
            LET sig == sorted[idx]
                open == current[1]
                closed == visits'[Len(visits')]
            IN  /\ Len(visits') = Len(visits) + 1
                /\ visits' = Append(visits, closed)
                /\ closed.city = open.city
                /\ closed.enter_date = open.enter_date
                /\ closed.enter_method = open.enter_method
                /\ closed.exit_date = sig.dt
                /\ closed.exit_method = "inferred_from_presence_elsewhere"
                /\ closed.supporting_events = open.supporting_events
                /\ Len(current') = 1
                /\ current'[1].city = sig.city
                /\ current'[1].enter_date = sig.dt
                /\ current'[1].exit_date = NoDate
                /\ current'[1].supporting_events = <<sig.source_event>>
                /\ pc' = "walk"]_vars
    /\ [](\A k \in 1..Len(signals) :
             FromTour(signals[k]) =>
                 /\ signals[k].signal_type = "present"
                 /\ signals[k].strength = 7)

\* a tour in another city has just closed the visit an arrival opened and
\* opened its own
C23_Witness ==
    /\ pc = "walk"
    /\ idx = 3
    /\ sorted[1].signal_type = "enter"
    /\ FromTour(sorted[2])
    /\ sorted[2].strength = 7
    /\ Lower(sorted[2].city) # Lower(sorted[1].city)
    /\ Len(visits) = 1
    /\ LastEmitted.city = sorted[1].city
    /\ LastEmitted.exit_date = sorted[2].dt
    /\ LastEmitted.exit_method = "inferred_from_presence_elsewhere"
    /\ current # <<>>
    /\ current[1].city = sorted[2].city
    /\ current[1].enter_date = sorted[2].dt
    /\ current[1].supporting_events = <<sorted[2].source_event>>

NextArrivalNote == "Exit inferred from arrival in"

\* C24: an ENTER signal processed while a visit is open sets that visit's
\* exit_date to the ENTER's date, its exit_method to
\* "inferred_from_next_arrival" and records a note naming the ENTER's city,
\* appends the visit to the output, and opens a new visit with the ENTER's
\* city, date, method and source event.  After any ENTER exactly one visit is
\* open and its exit_date is unset.
C24_EnterClosesOpenVisit ==
    /\ [][(AtSignal("enter") /\ current # <<>>) =>
            LET sig == sorted[idx]
                open == current[1]
                closed == visits'[Len(visits')]
            IN  /\ Len(visits') = Len(visits) + 1
                /\ visits' = Append(visits, closed)
                /\ closed.city = open.city
                /\ closed.enter_date = open.enter_date
                /\ closed.enter_method = open.enter_method
                /\ closed.supporting_events = open.supporting_events
                /\ closed.exit_date = sig.dt
                /\ closed.exit_method = "inferred_from_next_arrival"
                /\ closed.notes =
                       Append(open.notes, Note(NextArrivalNote, sig.city))
                /\ current'[1].city = sig.city
                /\ current'[1].enter_date = sig.dt
                /\ current'[1].enter_method = sig.method
                /\ current'[1].supporting_events = <<sig.source_event>>]_vars
    /\ [][AtSignal("enter") =>
            /\ Len(current') = 1
            /\ current'[1].exit_date = NoDate
            /\ (current = <<>> => visits' = visits)
            /\ pc' = "walk"]_vars

\* an arrival in another city has just closed the visit opened before it
C24_Witness ==
    /\ pc = "walk"
    /\ idx > 2
    /\ sorted[idx - 1].signal_type = "enter"
    /\ visits # <<>>
    /\ Len(current) = 1
    /\ Lower(LastEmitted.city) # Lower(current[1].city)
    /\ LastEmitted.enter_date # NoDate
    /\ LastEmitted.enter_date < LastEmitted.exit_date
    /\ LastEmitted.exit_date = sorted[idx - 1].dt
    /\ LastEmitted.exit_method = "inferred_from_next_arrival"
    /\ HasNote(LastEmitted, NextArrivalNote)
    /\ current[1].city = sorted[idx - 1].city
    /\ current[1].enter_date = sorted[idx - 1].dt
    /\ current[1].exit_date = NoDate

\* a method is explicit when it does not contain "inferred"
ExplicitMethod(m) == ~ContainsInferred(m)

\* the scoring rule, in tenths
ScoringRule(v) ==
    LET base == IF ExplicitMethod(v.enter_method)
                   /\ ExplicitMethod(v.exit_method) THEN 10
                ELSE IF ExplicitMethod(v.enter_method)
                        \/ ExplicitMethod(v.exit_method) THEN 7
                ELSE 4
        bonus == (IF Len(v.accommodations) >= 1 THEN 1 ELSE 0)
                 + (IF Len(v.supporting_events) >= 3 THEN 1 ELSE 0)
    IN  IF base + bonus > 10 THEN 10 ELSE base + bonus

\* C25: the confidence of every visit returned by build_timeline is the
\* scoring rule applied to the visit's final fields (1.0 / 0.7 / 0.4 by the
\* number of explicit methods, plus 0.1 for an accommodation, plus 0.1 for
\* three or more supporting events, capped at 1.0), and lies between 0.4
\* and 1.0.
C25_ConfidenceIsScoringRule ==
    Done =>
        \A k \in 1..Len(merged) :
            /\ merged[k].confidence = ScoringRule(merged[k])
            /\ merged[k].confidence >= 4
            /\ merged[k].confidence <= 10

\* a merged visit whose score differs from the score of the first of its
\* parts, with an accommodation counted
C25_Witness ==
    /\ Done
    /\ Len(assembled) >= 2
    /\ Len(merged) = 1
    /\ merged[1].accommodations # <<>>
    /\ merged[1].confidence # assembled[1].confidence
    /\ merged[1].confidence = 10

\* a returned visit with three supporting events
C25_WitnessThreeEvents ==
    /\ Done
    /\ \E k \in 1..Len(merged) :
          /\ Len(merged[k].supporting_events) >= 3
          /\ merged[k].confidence < 10

\* C28: an unresolved exit survives merging: when the last visit
\* assemble_visits produced has exit_date unset, the last visit build_timeline
\* returns has exit_date unset too.
C28_OpenEndSurvivesMerge ==
    (Done /\ assembled # <<>>
        /\ assembled[Len(assembled)].exit_date = NoDate) =>
        merged[Len(merged)].exit_date = NoDate

-----------------------------------------------------------------------------
(* Properties of sort_signals *)

Count(x, seq) == Cardinality({k \in 1..Len(seq) : seq[k] = x})

IsPermutation(a, b) ==
    /\ Len(a) = Len(b)
    /\ \A k \in 1..Len(a) : Count(a[k], a) = Count(a[k], b)

\* the type of the earlier signal must come first on a shared date
TypePrecedes(t, u) ==
    \/ t = "exit" /\ u \in {"present", "enter"}
    \/ t = "present" /\ u = "enter"

\* C7: sort_signals returns a permutation of its input with dt non-decreasing
\* and, on one date, every EXIT before every PRESENT before every ENTER.
C7_SortOrder ==
    pc = "sorted" =>
        /\ IsPermutation(signals, sorted)
        /\ \A i \in 1..Len(sorted) : \A j \in 1..Len(sorted) :
              /\ i < j => sorted[i].dt <= sorted[j].dt
              /\ (sorted[i].dt = sorted[j].dt
                  /\ TypePrecedes(sorted[i].signal_type,
                                  sorted[j].signal_type)) => i < j

\* an ENTER handed in before an EXIT of the same date, and a later date first
C7_Witness ==
    /\ pc = "sorted"
    /\ Len(signals) = 3
    /\ signals[1].dt > signals[2].dt
    /\ signals[2].signal_type = "enter"
    /\ signals[3].signal_type = "exit"
    /\ signals[2].dt = signals[3].dt
    /\ sorted = <<signals[3], signals[2], signals[1]>>

-----------------------------------------------------------------------------
(* Properties of detect_gaps *)

\* C10: every reported Gap has duration_days = next_known_date minus
\* last_known_date, and that duration is more than 14 days.
C10_GapsExceedThreshold ==
    \A k \in 1..Len(gaps) :
        /\ gaps[k].duration_days
              = gaps[k].next_known_date - gaps[k].last_known_date
        /\ gaps[k].duration_days > 14

\* a 15-day gap is reported, next to an overlapping pair that is not
C10_Witness ==
    /\ pc = "gaps_done"
    /\ Len(visits) = 2
    /\ Len(gaps) = 1
    /\ gaps[1].duration_days = 15

C10_WitnessOverlap ==
    /\ pc = "gaps_done"
    /\ Len(sorted) = 2
    /\ sorted[1].exit_date # NoDate
    /\ sorted[2].enter_date # NoDate
    /\ sorted[2].enter_date < sorted[1].exit_date
    /\ gaps = <<>>

-----------------------------------------------------------------------------
(* Properties of deduplicate *)

DedupDone == pc = "dedup_done"
Folding == pc \in {"fold1", "fold2"} /\ rest # <<>>

ScalarFields ==
    {"start_date", "end_date", "confirmation_number", "provider",
     "property_name", "activity_name", "legs"}
LocationFields == {"origin", "destination"}
LocationParts == {"raw", "iata", "country"}

\* null / empty, per field
IsEmptyField(ev, f) ==
    CASE f \in {"start_date", "end_date"} -> ev[f] = NoDate
      [] f = "legs" -> ev[f] = <<>>
      [] f \in LocationFields -> ~ev[f].some
      [] OTHER -> ev[f] = ""

\* C3: a fold of a secondary into the primary leaves every populated field of
\* the primary (dates, confirmation number, provider, property and activity
\* names, legs, and an origin / destination that has a city) at its pre-merge
\* value; a field that changes was empty (or a city-less location) and takes
\* the secondary's value.
C3_PopulatedFieldsKept ==
    [][Folding =>
          LET before == heap[primary]
              secondary == heap[Head(rest)]
              after == heap'[primary]
          IN  /\ \A f \in ScalarFields :
                    /\ ~IsEmptyField(before, f) => after[f] = before[f]
                    /\ after[f] # before[f] => after[f] = secondary[f]
              /\ \A f \in LocationFields :
                    /\ HasCity(before[f]) => after[f] = before[f]
                    /\ after[f] # before[f] => after[f] = secondary[f]
              /\ after.event_type = before.event_type]_vars

\* a finished merge in which the primary kept its own confirmation number
\* against a different one and received the provider it lacked
C3_Witness ==
    /\ DedupDone
    /\ Len(deduped) = 1
    /\ \E s \in 1..Len(events) :
          LET p == deduped[1]
          IN  /\ s # p
              /\ events[p].confirmation_number # ""
              /\ events[s].confirmation_number # ""
              /\ events[s].confirmation_number # events[p].confirmation_number
              /\ heap[p].confirmation_number = events[p].confirmation_number
              /\ events[p].provider = ""
              /\ events[s].provider # ""
              /\ heap[p].provider = events[s].provider

\* C4: when the primary's origin / destination is present without a city and
\* the secondary's has a city, the merged location has the secondary's city
\* and the primary's own populated raw, iata and country.
C4_LocationMergedByComponent ==
    [][Folding =>
          LET before == heap[primary]
              secondary == heap[Head(rest)]
              after == heap'[primary]
          IN  \A f \in LocationFields :
                  (before[f].some /\ before[f].city = ""
                   /\ HasCity(secondary[f])) =>
                      /\ after[f].city = secondary[f].city
                      /\ \A c \in LocationParts :
                            before[f][c] # "" => after[f][c] = before[f][c]]_vars

\* the location a two-event merge is to produce: the richer event's, with the
\* other's city when the richer one has none
ExpectedLocation(hi, lo) ==
    IF ~hi.some THEN lo
    ELSE IF hi.city = "" /\ HasCity(lo) THEN [hi EXCEPT !.city = lo.city]
    ELSE hi

ExpectedMerge(hi, lo) ==
    [f \in DOMAIN hi |->
        IF f = "event_type" THEN hi[f]
        ELSE IF f \in LocationFields THEN ExpectedLocation(hi[f], lo[f])
        ELSE IF IsEmptyField(hi, f) THEN lo[f] ELSE hi[f]]

\* C5: two events with the same trimmed, non-empty confirmation number
\* deduplicate to one event; each of its fields is the value of whichever
\* event has it, the richer event's when both do (either on equal richness).
C5_SameConfirmationMergesByRichness ==
    (DedupDone /\ Len(events) = 2
     /\ ConfKey(events[1]) # "" /\ ConfKey(events[1]) = ConfKey(events[2])) =>
        /\ Len(deduped) = 1
        /\ LET a == events[1]
               b == events[2]
               out == heap[deduped[1]]
           IN  \/ /\ richness_score(a) >= richness_score(b)
                  /\ out = ExpectedMerge(a, b)
               \/ /\ richness_score(b) >= richness_score(a)
                  /\ out = ExpectedMerge(b, a)

RefDate(ev) == IF ev.start_date # NoDate THEN ev.start_date ELSE ev.end_date
DestCity(ev) == IF ev.destination.some THEN ev.destination.city ELSE ""

\* the stated conditions for two unconfirmed events to be one booking
SameBooking(a, b) ==
    /\ a.event_type = b.event_type
    /\ RefDate(a) # NoDate
    /\ RefDate(b) # NoDate
    /\ RefDate(a) - RefDate(b) <= 2
    /\ RefDate(b) - RefDate(a) <= 2
    /\ \/ /\ DestCity(a) # ""
          /\ DestCity(b) # ""
          /\ Lower(DestCity(a)) = Lower(DestCity(b))
       \/ /\ a.provider # ""
          /\ b.provider # ""
          /\ Lower(a.provider) = Lower(b.provider)

TwoUnconfirmed ==
    /\ Len(events) = 2
    /\ events[1].confirmation_number = ""
    /\ events[2].confirmation_number = ""

\* C11: two events without confirmation number come back as one merged event
\* exactly when they have the same type, each has a reference date (start,
\* else end), the dates are at most 2 days apart, and their non-empty
\* destination cities or their non-empty providers are equal ignoring case;
\* otherwise both come back, unmerged.
C11_UnconfirmedPairMergesIffMatch ==
    (DedupDone /\ TwoUnconfirmed) =>
        IF SameBooking(events[1], events[2])
        THEN Len(deduped) = 1
        ELSE /\ deduped = <<1, 2>>
             /\ heap = events

\* a merge at the edge of the window, through providers spelled differently
C11_Witness ==
    /\ DedupDone
    /\ TwoUnconfirmed
    /\ RefDate(events[2]) - RefDate(events[1]) = 2
    /\ events[1].provider # events[2].provider
    /\ Lower(events[1].provider) = Lower(events[2].provider)
    /\ DestCity(events[1]) # DestCity(events[2])
    /\ Len(deduped) = 1

Trimmed(ev) == Strip(ev.confirmation_number)

\* every input event sits in the group of its trimmed confirmation number, or
\* once in the pool when that is empty
PartitionedByConfirmation ==
    \A i \in 1..Len(events) :
        LET inGroups == {g \in 1..Len(by_conf) :
                            \E k \in 1..Len(by_conf[g].members) :
                                by_conf[g].members[k] = i}
            inGroupAt == {<<g, k>> \in
                             (1..Len(by_conf)) \X (1..Len(events)) :
                                 /\ k <= Len(by_conf[g].members)
                                 /\ by_conf[g].members[k] = i}
            inPool == {k \in 1..Len(no_conf) : no_conf[k] = i}
        IN  IF Trimmed(events[i]) # ""
            THEN /\ Cardinality(inGroupAt) = 1
                 /\ \A g \in inGroups : by_conf[g].conf = Trimmed(events[i])
                 /\ inPool = {}
            ELSE /\ inGroups = {}
                 /\ Cardinality(inPool) = 1

\* the richest member of a group, the first in input order among equals
RichestFirst(p, group) ==
    /\ p \in group
    /\ \A g \in group :
          \/ richness_score(events[p]) > richness_score(events[g])
          \/ /\ richness_score(events[p]) = richness_score(events[g])
             /\ p <= g

\* C13: deduplicate returns no more events than it was given; each returned
\* event is an input event, the richest of its group (first in input order on
\* ties); each input event is in exactly one group, that of its trimmed
\* non-empty confirmation number or one group of the unconfirmed pool.
C13_GroupsPartitionInput ==
    /\ [](DedupDone =>
            /\ Len(deduped) <= Len(events)
            /\ \A k \in 1..Len(deduped) : deduped[k] \in 1..Len(events)
            /\ NoDuplicates(deduped)
            /\ used = 1..Len(no_conf))
    /\ [](pc \in {"phase1", "fold1", "phase2", "fold2", "dedup_done"} =>
            /\ PartitionedByConfirmation
            /\ \A g \in 1..Len(by_conf) : \A h \in 1..Len(by_conf) :
                  by_conf[g].conf = by_conf[h].conf => g = h)
    /\ [][(pc = "phase1" /\ pc' = "fold1") =>
            LET group == SeqRange(by_conf[idx].members)
            IN  /\ {primary'} \cup SeqRange(rest') = group
                /\ Len(rest') + 1 = Cardinality(group)
                /\ RichestFirst(primary', group)]_vars
    /\ [][(pc = "phase2" /\ pc' = "fold2") =>
            LET group == {primary'} \cup SeqRange(rest')
            IN  /\ used \subseteq used'
                /\ idx \notin used
                /\ idx \in used'
                /\ group = {no_conf[j] : j \in used' \ used}
                /\ Len(rest') + 1 = Cardinality(group)
                /\ RichestFirst(primary', group)]_vars
    /\ [][(pc \in {"fold1", "fold2"} /\ pc' \notin {"fold1", "fold2"}) =>
            deduped' = Append(deduped, primary)]_vars
    /\ [][(pc \in {"phase1", "phase2"} /\ pc' \in {"phase1", "phase2",
                                                  "dedup_done"}) =>
            deduped' = deduped /\ used' \in {used, {}}]_vars

\* three bookings: the second, richer extraction of a confirmed booking is
\* returned for its group, the unconfirmed one for its own
C13_Witness ==
    /\ DedupDone
    /\ Len(events) = 3
    /\ Trimmed(events[1]) # ""
    /\ Trimmed(events[1]) = Trimmed(events[2])
    /\ events[1].confirmation_number # events[2].confirmation_number
    /\ Trimmed(events[3]) = ""
    /\ deduped = <<2, 3>>

\* the later pool positions the seed at position i is to pull in
DirectMatches(i) ==
    {j \in (i + 1)..Len(no_conf) :
        /\ j \notin used
        /\ SameBooking(events[no_conf[i]], events[no_conf[j]])}

\* three unconfirmed events, the second matching the first and the third, the
\* third not matching the first
MatchChain ==
    /\ Len(events) = 3
    /\ \A i \in 1..3 : Trimmed(events[i]) = ""
    /\ SameBooking(events[1], events[2])
    /\ SameBooking(events[2], events[3])
    /\ ~SameBooking(events[1], events[3])

\* C14: in the unconfirmed pool an event already grouped seeds no group; a
\* seed's group is the seed and exactly the later, not yet grouped events that
\* match the seed itself; an event matching only another member of the group
\* stays out of it.
C14_GreedySeedRelativeGroups ==
    /\ [][(pc = "phase2" /\ idx <= Len(no_conf) /\ idx \in used) =>
            /\ pc' = "phase2"
            /\ used' = used
            /\ deduped' = deduped]_vars
    /\ [][(pc = "phase2" /\ idx <= Len(no_conf) /\ idx \notin used) =>
            /\ pc' = "fold2"
            /\ used' = used \cup {idx} \cup DirectMatches(idx)
            /\ {primary'} \cup SeqRange(rest')
                   = {no_conf[j] : j \in {idx} \cup DirectMatches(idx)}
            /\ Len(rest') = Cardinality(DirectMatches(idx))]_vars
    /\ []((DedupDone /\ MatchChain) =>
            /\ Len(deduped) = 2
            /\ deduped[1] \in {1, 2}
            /\ deduped[2] = 3
            /\ heap[3] = events[3])

C14_Witness ==
    /\ DedupDone
    /\ MatchChain
    /\ Len(deduped) = 2

\* the events deduplicate returns
DedupResult == [k \in 1..Len(deduped) |-> heap[deduped[k]]]

\* the call that has run returned what deduplicate, as a function, gives
DedupAgreesWithFunction == DedupDone => DedupResult = deduplicate(events)

\* C26: deduplicate is idempotent: deduplicating the list it returned gives
\* the same events again, as many and with the same field values.
C26_DedupIdempotent == DedupDone => deduplicate(DedupResult) = DedupResult

\* C27: deduplicate never fuses events of different event_type: every event
\* folded into a surviving event has that event's event_type, in the
\* confirmation-number groups and in the date-window groups alike.
C27_SameTypeFolded ==
    pc \in {"fold1", "fold2"} =>
        \A k \in 1..Len(rest) :
            heap[rest[k]].event_type = heap[primary].event_type

\* the date-window groups of phase 2 alone hold events of one type
C27_SameTypeInDateGroups ==
    pc = "fold2" =>
        \A k \in 1..Len(rest) :
            heap[rest[k]].event_type = heap[primary].event_type

-----------------------------------------------------------------------------
(* Properties of merge_consecutive_visits *)

EffectiveEnd(v) == IF v.exit_date # NoDate THEN v.exit_date ELSE v.enter_date
EffectiveStart(v) == IF v.enter_date # NoDate THEN v.enter_date ELSE v.exit_date

\* the stated condition for joining visit b to the running visit a
JoinsRunningVisit(a, b) ==
    /\ Lower(a.city) = Lower(b.city)
    /\ \/ EffectiveEnd(a) = NoDate
       \/ EffectiveStart(b) = NoDate
       \/ EffectiveStart(b) - EffectiveEnd(a) <= 1

EarliestNonNull(a, b) ==
    IF a = NoDate THEN b ELSE IF b = NoDate THEN a ELSE IF a <= b THEN a ELSE b
LatestNonNull(a, b) ==
    IF a = NoDate THEN b ELSE IF b = NoDate THEN a ELSE IF a >= b THEN a ELSE b

SameCityPair ==
    /\ Len(visits) = 2
    /\ Lower(visits[1].city) = Lower(visits[2].city)
    /\ EffectiveEnd(visits[1]) # NoDate
    /\ EffectiveStart(visits[2]) # NoDate

\* C12: the merger joins the next visit to the running one exactly when the
\* cities are equal ignoring case and the gap is undetermined or at most one
\* day; a joined visit carries the earliest non-null enter date and the latest
\* non-null exit date of the two; a same-city pair one day apart comes back
\* as one visit, a same-city pair two or more days apart as two.
C12_MergeExactlyWhenAdjacent ==
    /\ [][(pc = "merging" /\ idx <= Len(visits)) =>
            LET a == current[1]
                b == visits[idx]
            IN  IF JoinsRunningVisit(a, b)
                THEN /\ merged' = merged
                     /\ current'[1].enter_date
                            = EarliestNonNull(a.enter_date, b.enter_date)
                     /\ current'[1].exit_date
                            = LatestNonNull(a.exit_date, b.exit_date)
                ELSE /\ Len(merged') = Len(merged) + 1
                     /\ current' = <<b>>]_vars
    /\ []((pc = "done" /\ SameCityPair) =>
            LET gap == EffectiveStart(visits[2]) - EffectiveEnd(visits[1])
            IN  /\ gap = 1 =>
                      /\ Len(merged) = 1
                      /\ merged[1].enter_date
                             = EarliestNonNull(visits[1].enter_date,
                                               visits[2].enter_date)
                      /\ merged[1].exit_date
                             = LatestNonNull(visits[1].exit_date,
                                             visits[2].exit_date)
                /\ gap >= 2 => Len(merged) = 2)

\* the pair {Paris, exit 0}, {paris, enter 1} merged into one visit
C12_Witness ==
    /\ pc = "done"
    /\ SameCityPair
    /\ visits[1].city # visits[2].city
    /\ visits[1].enter_date = NoDate
    /\ visits[1].exit_date = 0
    /\ visits[2].enter_date = 1
    /\ visits[2].exit_date = NoDate
    /\ Len(merged) = 1

\* a same-city pair two days apart, kept as two visits
C12_WitnessApart ==
    /\ pc = "done"
    /\ SameCityPair
    /\ EffectiveStart(visits[2]) - EffectiveEnd(visits[1]) = 2
    /\ Len(merged) = 2

-----------------------------------------------------------------------------
(* Properties of build_timeline's returned list *)

\* C29: the list build_timeline returns is chronological: the effective
\* start (enter_date, else exit_date) of each visit is at most that of the
\* visit after it; every returned visit has a date and a non-empty city.
C29_ReturnedVisitsChronological ==
    Done =>
        /\ \A k \in 1..Len(merged) :
              /\ merged[k].city # ""
              /\ EffectiveStart(merged[k]) # NoDate
        /\ \A k \in 1..(Len(merged) - 1) :
              EffectiveStart(merged[k]) <= EffectiveStart(merged[k + 1])

\* the events were given latest first; two visits are returned, the earlier
\* one first
C29_Witness ==
    /\ Done
    /\ Len(events) = 2
    /\ events[1].start_date > events[2].start_date
    /\ Len(merged) = 2
    /\ merged[1].supporting_events = <<2>>
    /\ merged[2].supporting_events = <<1>>
    /\ EffectiveStart(merged[1]) < EffectiveStart(merged[2])

\* a departure-only visit is placed by its exit_date, before a later visit
C29_WitnessDepartureOnly ==
    /\ Done
    /\ Len(merged) = 2
    /\ merged[1].enter_date = NoDate
    /\ merged[1].exit_date # NoDate
    /\ merged[2].enter_date # NoDate
    /\ EffectiveStart(merged[1]) < EffectiveStart(merged[2])

\* the call that has run returned what merge_consecutive_visits, as a
\* function, gives
MergeAgreesWithFunction ==
    Done => merged = merge_consecutive_visits(visits)

VisitDates(vs) ==
    [k \in 1..Len(vs) |-> <<vs[k].enter_date, vs[k].exit_date>>]

\* C30: the list build_timeline returns is fully merged: no two adjacent
\* visits of it have the same city (ignoring case) and at most one day
\* between the first's effective end and the second's effective start, and
\* merge_consecutive_visits applied to it returns as many visits with the
\* same dates.
C30_ReturnedVisitsFullyMerged ==
    Done =>
        /\ \A k \in 1..(Len(merged) - 1) :
              ~JoinsRunningVisit(merged[k], merged[k + 1])
        /\ Len(merge_consecutive_visits(merged)) = Len(merged)
        /\ VisitDates(merge_consecutive_visits(merged)) = VisitDates(merged)

\* a merge has happened, and two visits of the same city are returned side
\* by side, more than a day apart
C30_Witness ==
    /\ Done
    /\ Len(assembled) > Len(merged)
    /\ Len(merged) >= 2
    /\ Lower(merged[1].city) = Lower(merged[2].city)
    /\ EffectiveStart(merged[2]) - EffectiveEnd(merged[1]) > 1

\* the assembler's own output is chronological in the same sense
AssembledChronological ==
    Assembled =>
        \A k \in 1..(Len(assembled) - 1) :
            /\ EffectiveStart(assembled[k]) # NoDate
            /\ EffectiveStart(assembled[k]) <= EffectiveStart(assembled[k + 1])

-----------------------------------------------------------------------------
(* Properties of detect_gaps *)

GapsDone == pc = "gaps_done"
HasADate(v) == v.enter_date # NoDate \/ v.exit_date # NoDate

GapPositions ==
    {i \in 1..(Len(augmented) - 1) :
        /\ EffectiveEnd(augmented[i]) # NoDate
        /\ EffectiveStart(augmented[i + 1]) # NoDate
        /\ EffectiveStart(augmented[i + 1]) - EffectiveEnd(augmented[i]) > 14}

\* C18: each consecutive pair of the sorted visits whose effective end and
\* start exist and lie more than the threshold apart gives exactly one Gap;
\* its note is the home-base note exactly when the earlier city is in the
\* home-base city set, and otherwise 'No evidence for N days' with N the
\* duration; 20 days after a city of the set: one Gap of 20 days with the
\* home-base note.
C18_OneGapPerPairWithNote ==
    GapsDone =>
        /\ Len(gaps) = Cardinality(GapPositions)
        /\ \A i \in GapPositions :
              LET g == gaps[Cardinality({q \in GapPositions : q <= i})]
                  days == EffectiveStart(augmented[i + 1])
                              - EffectiveEnd(augmented[i])
              IN  /\ g.last_known_city = augmented[i].city
                  /\ g.last_known_date = EffectiveEnd(augmented[i])
                  /\ g.next_known_city = augmented[i + 1].city
                  /\ g.next_known_date = EffectiveStart(augmented[i + 1])
                  /\ g.duration_days = days
                  /\ IF augmented[i].city \in EUROPEAN_CITIES
                     THEN /\ g.note.text = "Likely at home base"
                          /\ g.note.home = "Barcelona"
                     ELSE /\ g.note.text = "No evidence for days"
                          /\ g.note.days = days

C18_Witness ==
    /\ GapsDone
    /\ Len(augmented) = 2
    /\ augmented[1].city = "Paris"
    /\ augmented[2].city = "Tokyo"
    /\ EffectiveStart(augmented[2]) - EffectiveEnd(augmented[1]) = 20
    /\ Len(gaps) = 1
    /\ gaps[1].duration_days = 20
    /\ gaps[1].note.text = "Likely at home base"

====
